---- MODULE Spec2Model ----
(***************************************************************************)
(* fetch-with-retries: the retry loop of fetchWithRetries, its classifiers *)
(* (status, transport error, rate-limit headers), its two delay functions, *)
(* the cancellable wait and the composition of the caller's signal with    *)
(* the fixed timeout.                                                      *)
(*                                                                         *)
(* One fetchWithRetries call is a sequential async function with two       *)
(* suspension points (await fetch, await wait).  pc is the position of the *)
(* call:                                                                   *)
(*   "call"     fetchWithRetries has been called, the options not merged   *)
(*   "merged"   the options are merged (where the options model stops)     *)
(*   "fetch"    the network attempt is in flight                           *)
(*   "settled"  the attempt has settled, the continuation is queued        *)
(*   "wait"     the inter-retry wait is pending                            *)
(*   "woken"    the wait has resolved, the continuation is queued          *)
(*   "returned" the call has returned a response                           *)
(*   "thrown"   the call has raised                                        *)
(***************************************************************************)
EXTENDS Integers, Sequences, FiniteSets, TLC

VARIABLES
    server,            \* the replies the server is scripted to give, in
                       \* order; <<>> when it may reply anything
    clock,             \* the Date.now() readings scripted for the attempts,
                       \* in order; <<>> when the clock may read anything
    retryOptions,      \* options.retryOptions as the caller passed them
    cfg,               \* merged retry options (mergeWithDefaultOptions)
    hasSignal,         \* the caller supplied options.signal
    hasTimeout,        \* the caller supplied options.timeout
    signalReason,      \* the reason the caller's signal aborts with
    signalAborted,     \* signal.aborted
    timeoutTimer,      \* the timer behind AbortSignal.timeout(timeout):
                       \* "none", "pending", "fired" or "cleared"
    fetchSignalReason, \* reason of the composed signal once aborted, else Null
    pc,
    attempt,
    errorRetries,
    rateLimitRetries,
    retry,
    response,
    errorToRetry,
    settled,           \* what the attempt in progress settled with
    internalTimer,     \* wait's setTimeout is pending
    abortListener,     \* wait's handleAbort is registered on the signal
    events,            \* the RetryEvents passed to onRetry, in order (none
                       \* when the caller passed no onRetry)
    result,            \* the returned response or the raised error
    previous,          \* what an earlier run of the same call ended with
                       \* (Null when there was none)
    other              \* the locals of a second call in progress, suspended
                       \* while this one takes a step (Null when alone)

\* What no step of the call changes: what the caller passes in, and what
\* belongs to other calls.
inputs == <<server, clock, retryOptions, cfg, hasSignal, hasTimeout,
            signalReason, previous, other>>

vars == <<server, clock, retryOptions, cfg, hasSignal, hasTimeout,
          signalReason, previous, other, signalAborted,
          timeoutTimer, fetchSignalReason, pc, attempt, errorRetries,
          rateLimitRetries, retry, response, errorToRetry, settled,
          internalTimer, abortListener, events, result>>

\* The AbortSignal.timeout(timeout) has fired.
timeoutFired == timeoutTimer = "fired"

----------------------------------------------------------------------------
(* Bounds of the model *)

MaxErrorBudget == 2
MaxRateLimitBudget == 1
MaxScriptedFailures == 14
MaxFailuresBeforeOk == 3

----------------------------------------------------------------------------
(* JavaScript values *)

\* null / undefined
Null == [null |-> TRUE]

\* A JavaScript number that may be NaN: <<>> is NaN, <<n>> is the number n.
NaN == <<>>
Num(n) == <<n>>
NumberIsInteger(x) == Len(x) = 1

Min(a, b) == IF a < b THEN a ELSE b

RECURSIVE Pow(_, _)
Pow(base, exp) == IF exp <= 0 THEN 1 ELSE base * Pow(base, exp - 1)

\* Strings are sequences of one-character strings.
DigitValue(c) ==
    CASE c = "0" -> 0 [] c = "1" -> 1 [] c = "2" -> 2 [] c = "3" -> 3
      [] c = "4" -> 4 [] c = "5" -> 5 [] c = "6" -> 6 [] c = "7" -> 7
      [] c = "8" -> 8 [] c = "9" -> 9 [] OTHER -> -1

IsDigit(c) == DigitValue(c) >= 0

\* The characters a string literal of this module cannot hold are written
\* as their code point.
VT == "U+000B"
NBSP == "U+00A0"
ZWNBSP == "U+FEFF"
LS == "U+2028"
PS == "U+2029"

\* Space separators (Unicode category Zs) other than U+0020 and U+00A0.
USP ==
    {"U+1680", "U+2000", "U+2001", "U+2002", "U+2003", "U+2004", "U+2005",
     "U+2006", "U+2007", "U+2008", "U+2009", "U+200A", "U+202F", "U+205F",
     "U+3000"}

\* StrWhiteSpaceChar of ECMAScript: WhiteSpace and LineTerminator, what
\* parseInt (like String.prototype.trimStart) skips at the start.
StrWhiteSpaceChar ==
    {" ", "\t", "\n", "\f", "\r", VT, NBSP, ZWNBSP, LS, PS} \cup USP

RECURSIVE SkipSpaces(_)
SkipSpaces(s) ==
    IF s # <<>> /\ Head(s) \in StrWhiteSpaceChar
    THEN SkipSpaces(Tail(s))
    ELSE s

\* The longest prefix of decimal digits of s, read as a number on top of acc.
RECURSIVE ReadDigits(_, _)
ReadDigits(s, acc) ==
    IF s # <<>> /\ IsDigit(Head(s))
    THEN ReadDigits(Tail(s), acc * 10 + DigitValue(Head(s)))
    ELSE acc

\* parseInt(s, 10)
parseInt(str) ==
    LET s == SkipSpaces(str)
        negative == s # <<>> /\ Head(s) = "-"
        signed == s # <<>> /\ Head(s) \in {"-", "+"}
        body == IF signed THEN Tail(s) ELSE s
    IN  IF body = <<>> \/ ~IsDigit(Head(body))
        THEN NaN
        ELSE IF negative THEN Num(0 - ReadDigits(body, 0))
                         ELSE Num(ReadDigits(body, 0))

----------------------------------------------------------------------------
(* retry-codes *)

RETRY_STATUS_CODES == {408, 425, 429, 500, 502, 503, 504}

RETRY_ERROR_CODES ==
    {"ENOTFOUND", "ECONNREFUSED", "ECONNRESET", "ETIMEDOUT", "EPIPE",
     "EAI_AGAIN", "EHOSTDOWN", "EHOSTUNREACH", "ENETDOWN", "ENETRESET",
     "ENETUNREACH", "ECONNABORTED"}

----------------------------------------------------------------------------
(* Responses and transport errors *)

\* A response is [status, headers, at]: headers is a set of <<name, value>>
\* pairs, at is the attempt that produced the object (its identity).
\* A transport error is [name, cause, source, at]: cause is Null or
\* [code |-> c]; source tells a network failure from the reason of the
\* caller's signal and from the reason of the fixed timeout.

RetryAfter(v) == <<"Retry-After", v>>
XRateLimitReset(v) == <<"X-RateLimit-Reset", v>>

\* response.headers.get(name) || ''
headersGetOrEmpty(headers, name) ==
    IF \E h \in headers : h[1] = name
    THEN (CHOOSE h \in headers : h[1] = name)[2]
    ELSE <<>>

\* response.ok
ok(resp) == resp.status >= 200 /\ resp.status <= 299

getRetryAfterFromHeader(resp) ==
    parseInt(headersGetOrEmpty(resp.headers, "Retry-After"))

getXRateLimitResetFromHeader(resp) ==
    parseInt(headersGetOrEmpty(resp.headers, "X-RateLimit-Reset"))

\* Mutants: the status is not looked at; a 503 is never a rate-limit retry.
isRateLimitRetry_AnyStatus(resp) ==
    \/ NumberIsInteger(getRetryAfterFromHeader(resp))
    \/ NumberIsInteger(getXRateLimitResetFromHeader(resp))

isRateLimitRetry_Only429(resp) ==
    /\ resp.status = 429
    /\ \/ NumberIsInteger(getRetryAfterFromHeader(resp))
       \/ NumberIsInteger(getXRateLimitResetFromHeader(resp))

\* Mutant: X-RateLimit-Reset counts for a 503 as it does for a 429.
isRateLimitRetry_ResetFor503(resp) ==
    /\ resp.status \in {429, 503}
    /\ \/ NumberIsInteger(getRetryAfterFromHeader(resp))
       \/ NumberIsInteger(getXRateLimitResetFromHeader(resp))

isRateLimitRetry(resp) ==
    \/ /\ resp.status \in {429, 503}
       /\ NumberIsInteger(getRetryAfterFromHeader(resp))
    \/ /\ resp.status = 429
       /\ NumberIsInteger(getXRateLimitResetFromHeader(resp))

\* Mutant: 408 (Request Timeout) is left out of the retryable statuses.
isResponseThatHaveToBeRetried_No408(resp) ==
    ~ok(resp) /\ resp.status \in RETRY_STATUS_CODES \ {408}

\* Mutant: 429 and 503 are left to the rate-limit path alone.
isResponseThatHaveToBeRetried_NotRateLimitStatus(resp) ==
    ~ok(resp) /\ resp.status \in RETRY_STATUS_CODES \ {429, 503}

isResponseThatHaveToBeRetried(resp) ==
    ~ok(resp) /\ resp.status \in RETRY_STATUS_CODES

\* Mutant: every transport error is retried (no classification).
isErrorThatHaveToBeRetried_Any(error) == TRUE

\* Mutant: only the transient cause codes are retried, a timeout is not.
isErrorThatHaveToBeRetried_NoTimeout(error) ==
    /\ error.cause # Null
    /\ error.cause.code # ""
    /\ error.cause.code \in RETRY_ERROR_CODES

\* Mutant: EPIPE (broken pipe) is left out of the transient cause codes.
isErrorThatHaveToBeRetried_NoEPIPE(error) ==
    \/ /\ error.cause # Null
       /\ error.cause.code # ""
       /\ error.cause.code \in RETRY_ERROR_CODES \ {"EPIPE"}
    \/ error.name = "TimeoutError"

isErrorThatHaveToBeRetried(error) ==
    \/ /\ error.cause # Null
       /\ error.cause.code # ""
       /\ error.cause.code \in RETRY_ERROR_CODES
    \/ error.name = "TimeoutError"

----------------------------------------------------------------------------
(* Retry options *)

\* Partial<RetryOptions> is a function from the provided field names.
DefaultRateLimit ==
    [maxRetries |-> 10, maxDelay |-> 60000]

DefaultOptions ==
    [maxRetries |-> 3, initialDelay |-> 1000, factor |-> 2,
     rateLimit |-> DefaultRateLimit]

\* {...a, ...b}: the fields of b win.
Spread(a, b) ==
    [f \in DOMAIN a \cup DOMAIN b |-> IF f \in DOMAIN b THEN b[f] ELSE a[f]]

mergeWithDefaultOptions(options) ==
    LET optionsRateLimit ==
            IF "rateLimit" \in DOMAIN options THEN options.rateLimit
            ELSE [f \in {} |-> 0]
        base == [DefaultOptions EXCEPT
                    !.rateLimit = Spread(DefaultRateLimit, optionsRateLimit)]
    IN  Spread(base, options)

\* Mutants of the two budget checks: one retry too many, one too few.
hasReachedMaxRetries_OneMore(retries) == retries > cfg.maxRetries

hasReachedMaxRetries_OneLess(retries) == retries + 1 >= cfg.maxRetries

hasReachedRateLimitMaxRetries_OneMore(retries) ==
    retries > cfg.rateLimit.maxRetries

\* Mutant: errorRetries is declared outside fetchWithRetries and a new call
\* does not set it back to 0, so the retries of an earlier run count too.
hasReachedMaxRetries_NotReset(retries) ==
    retries + (IF previous = Null THEN 0 ELSE previous.errorRetries)
        >= cfg.maxRetries

hasReachedMaxRetries(retries) == retries >= cfg.maxRetries

hasReachedRateLimitMaxRetries(retries) == retries >= cfg.rateLimit.maxRetries

\* Mutant: the header's delay is taken as it is, without Math.min.
getRateLimitDelay_NoCap(resp, now) ==
    LET retryAfter == getRetryAfterFromHeader(resp)
        xRateLimitReset == getXRateLimitResetFromHeader(resp)
    IN  IF NumberIsInteger(retryAfter)
        THEN retryAfter[1] * 1000
        ELSE xRateLimitReset[1] * 1000 - now

\* Mutant: the delay is computed from X-RateLimit-Reset first.
getRateLimitDelay_ResetFirst(resp, now) ==
    LET retryAfter == getRetryAfterFromHeader(resp)
        xRateLimitReset == getXRateLimitResetFromHeader(resp)
    IN  IF NumberIsInteger(xRateLimitReset)
        THEN Min(xRateLimitReset[1] * 1000 - now, cfg.rateLimit.maxDelay)
        ELSE Min(retryAfter[1] * 1000, cfg.rateLimit.maxDelay)

getRateLimitDelay(resp, now) ==
    LET retryAfter == getRetryAfterFromHeader(resp)
        xRateLimitReset == getXRateLimitResetFromHeader(resp)
    IN  IF NumberIsInteger(retryAfter)
        THEN Min(retryAfter[1] * 1000, cfg.rateLimit.maxDelay)
        ELSE Min(xRateLimitReset[1] * 1000 - now, cfg.rateLimit.maxDelay)

\* Mutant: the exponent is the count before the increment (factor^0 first).
getDelay_PreIncrement(retries) ==
    cfg.initialDelay * Pow(cfg.factor, retries - 1)

\* Mutant: the exponent counts the retries that are left, not those made.
getDelay_RetriesLeft(retries) ==
    cfg.initialDelay * Pow(cfg.factor, cfg.maxRetries - retries)

getDelay(retries) == cfg.initialDelay * Pow(cfg.factor, retries)

----------------------------------------------------------------------------
(* The environment: what one network attempt can settle with *)

NoHeaders == {}

\* Header sets a server sends with a 429 or a 503.
RateLimitHeaderSets ==
    { {RetryAfter(<<"0">>)},
      {RetryAfter(<<"2">>)},
      {RetryAfter(<<"s", "o", "o", "n">>)},
      {XRateLimitReset(<<"5">>)},
      {RetryAfter(<<"2">>), XRateLimitReset(<<"5">>)},
      {RetryAfter(<<"s", "o", "o", "n">>), XRateLimitReset(<<"5">>)} }

Statuses == {200, 400} \cup RETRY_STATUS_CODES

ResponseShapes ==
    [status : Statuses, headers : {NoHeaders}]
    \cup [status : {429, 503}, headers : RateLimitHeaderSets]
    \cup [status : {200, 500}, headers : {{RetryAfter(<<"0">>)}}]

\* fetch failed (cause.code = c), as undici raises it
FetchError(c) ==
    [name |-> "TypeError", cause |-> [code |-> c], source |-> "network"]

ErrorShapes ==
    { FetchError("ECONNRESET"), FetchError("ERR_INVALID_URL"),
      [name |-> "TypeError", cause |-> Null, source |-> "network"] }

\* Date.now() readings, in milliseconds
Clock == {4000, 6000}

Response(shape, n) ==
    [status |-> shape.status, headers |-> shape.headers, at |-> n]

Error(shape, n) ==
    [name |-> shape.name, cause |-> shape.cause, source |-> shape.source,
     at |-> n]

Resolved(resp) == [kind |-> "response", value |-> resp]
Rejected(err) == [kind |-> "error", value |-> err]

\* What a server can be told to reply: a response or a failure, not yet
\* tied to an attempt.
Replies ==
    { Resolved(sh) : sh \in ResponseShapes }
    \cup { Rejected(sh) : sh \in ErrorShapes }

\* The outcome of attempt n when the server gives reply.
Outcome(reply, n) ==
    IF reply.kind = "response"
    THEN Resolved(Response(reply.value, n))
    ELSE Rejected(Error(reply.value, n))

Outcomes(n) == { Outcome(reply, n) : reply \in Replies }

\* k times the reply failure, then the reply last (nock: times(k).reply)
RECURSIVE Times(_, _)
Times(k, reply) == IF k <= 0 THEN <<>> ELSE <<reply>> \o Times(k - 1, reply)

Script(k, failure, last) == Times(k, failure) \o <<last>>

\* The sequences of n replies out of S.
RECURSIVE SequencesOf(_, _)
SequencesOf(S, n) ==
    IF n <= 0 THEN { <<>> }
    ELSE { <<x>> \o s : x \in S, s \in SequencesOf(S, n - 1) }

Reply200 == Resolved([status |-> 200, headers |-> NoHeaders])
Reply503 == Resolved([status |-> 503, headers |-> NoHeaders])
Reply429RetryAfter0 ==
    Resolved([status |-> 429, headers |-> {RetryAfter(<<"0">>)}])
Reply503RetryAfter0 ==
    Resolved([status |-> 503, headers |-> {RetryAfter(<<"0">>)}])
ReplyECONNRESET == Rejected(FetchError("ECONNRESET"))

\* The scripts of the test-suite: a failure repeated, then a 200.
Scripts ==
    { Script(k, failure, Reply200) :
        k \in 0..MaxScriptedFailures,
        failure \in {Reply503, Reply429RetryAfter0, Reply503RetryAfter0,
                     ReplyECONNRESET} }

\* The reason of AbortSignal.timeout(timeout)
TimeoutReason ==
    [name |-> "TimeoutError", cause |-> Null, source |-> "timeout", at |-> 0]

\* Reasons the caller's signal can abort with: controller.abort(new Error())
\* or a signal built with AbortSignal.timeout.
SignalReasons ==
    { [name |-> "Error", cause |-> Null, source |-> "signal", at |-> 0],
      [name |-> "TimeoutError", cause |-> Null, source |-> "signal",
       at |-> 0] }

\* The retryOptions the caller passes: the budgets, the delays, and no
\* onRetry, an onRetry that can throw, or one that returns.
RetryOptionsInputs ==
    { Spread([maxRetries |-> m,
              rateLimit |-> [maxRetries |-> r, maxDelay |-> 1000]], d) :
        m \in 0..MaxErrorBudget, r \in 0..MaxRateLimitBudget,
        d \in { [initialDelay |-> 0],
                [initialDelay |-> 0, onRetry |-> "throws"],
                [initialDelay |-> 100, factor |-> 3,
                 onRetry |-> "returns"] } }

----------------------------------------------------------------------------
(* fetchWithRetries *)

\* Mutant: the loop never looks at the caller's signal.
signalIsAborted_Never == FALSE

\* Mutant: the loop looks at the composed signal (the caller's signal or the
\* fixed timeout).
signalIsAborted_Composed ==
    \/ hasSignal /\ signalAborted
    \/ hasTimeout /\ timeoutFired

\* signal?.aborted
signalIsAborted == hasSignal /\ signalAborted

\* composeSignal(signal, timeout): which sources the fetch signal follows
composeSignal ==
    CASE hasSignal /\ ~hasTimeout -> {"signal"}
      [] ~hasSignal /\ hasTimeout -> {"timeout"}
      [] hasSignal /\ hasTimeout -> {"signal", "timeout"}
      [] OTHER -> {}

\* fetchSignal.aborted
fetchSignalAborted ==
    \/ "signal" \in composeSignal /\ signalAborted
    \/ "timeout" \in composeSignal /\ timeoutFired

\* The timer behind AbortSignal.timeout(timeout) is pending: composeSignal
\* creates the signal before the first attempt, its timer runs until it
\* fires or the signal is garbage collected; the call does not clear it.
timeoutTimerPending == timeoutTimer = "pending"

\* The object the event hands to onRetry refers to.
Ref(x) == IF x = Null THEN Null ELSE [at |-> x.at]

\* Mutant: the event counts attempts from 0.
RetryEvent_ZeroBased(err, resp, n, delay, rateLimitRetry) ==
    [error |-> Ref(err), response |-> Ref(resp), attempt |-> n - 1,
     delay |-> delay, rateLimitRetry |-> rateLimitRetry]

\* Mutant: the event names the attempt that the retry is about to make.
RetryEvent_NextAttempt(err, resp, n, delay, rateLimitRetry) ==
    [error |-> Ref(err), response |-> Ref(resp), attempt |-> n + 1,
     delay |-> delay, rateLimitRetry |-> rateLimitRetry]

RetryEvent(err, resp, n, delay, rateLimitRetry) ==
    [error |-> Ref(err), response |-> Ref(resp), attempt |-> n,
     delay |-> delay, rateLimitRetry |-> rateLimitRetry]

\* Lines 41-63: the options are merged, the counters set, the first attempt
\* is issued.
InitCall(script, options, sig, reason, tmo) ==
    /\ server = script
    /\ clock = <<>>
    /\ previous = Null
    /\ other = Null
    /\ retryOptions = options
    /\ cfg = mergeWithDefaultOptions(options)
    /\ hasSignal = sig
    /\ hasTimeout = tmo
    /\ signalReason = reason
    /\ signalAborted = FALSE
    /\ timeoutTimer = (IF tmo THEN "pending" ELSE "none")
    /\ fetchSignalReason = Null
    /\ pc = "fetch"
    /\ attempt = 1
    /\ errorRetries = 0
    /\ rateLimitRetries = 0
    /\ retry = FALSE
    /\ response = Null
    /\ errorToRetry = Null
    /\ settled = Null
    /\ internalTimer = FALSE
    /\ abortListener = FALSE
    /\ events = <<>>
    /\ result = Null

Init ==
    \E options \in RetryOptionsInputs, sig \in BOOLEAN, tmo \in BOOLEAN :
        \E reason \in IF sig THEN SignalReasons ELSE {Null} :
            InitCall(<<>>, options, sig, reason, tmo)

\* A call with the default options (the tests set initialDelay to 0 to run
\* fast, and pass an onRetry that counts the retries), no signal and no
\* timeout, against a scripted server.
InitScripted ==
    \E script \in Scripts :
        \E options \in { [f \in {} |-> 0], [initialDelay |-> 0],
                         [onRetry |-> "returns"],
                         [initialDelay |-> 0, onRetry |-> "returns"] } :
            InitCall(script, options, FALSE, Null, FALSE)

Running == pc \in {"fetch", "settled", "wait", "woken"}

\* Mutant: handleAbort removes the listener and clears the timer but does
\* not resolve the wait.
abort_NoResolve ==
    /\ Running
    /\ hasSignal
    /\ ~signalAborted
    /\ signalAborted' = TRUE
    /\ fetchSignalReason' =
           IF fetchSignalReason = Null THEN signalReason
           ELSE fetchSignalReason
    /\ IF pc = "wait" /\ abortListener
       THEN /\ abortListener' = FALSE
            /\ internalTimer' = FALSE
            /\ UNCHANGED pc
       ELSE UNCHANGED <<abortListener, internalTimer, pc>>
    /\ UNCHANGED <<inputs, timeoutTimer,
                   attempt, errorRetries, rateLimitRetries, retry, response,
                   errorToRetry, settled, events, result>>

\* Mutant: handleAbort resolves the wait and leaves the timer pending.
abort_NoClearTimeout ==
    /\ Running
    /\ hasSignal
    /\ ~signalAborted
    /\ signalAborted' = TRUE
    /\ fetchSignalReason' =
           IF fetchSignalReason = Null THEN signalReason
           ELSE fetchSignalReason
    /\ IF pc = "wait" /\ abortListener
       THEN /\ abortListener' = FALSE
            /\ pc' = "woken"
            /\ UNCHANGED internalTimer
       ELSE UNCHANGED <<abortListener, internalTimer, pc>>
    /\ UNCHANGED <<inputs, timeoutTimer,
                   attempt, errorRetries, rateLimitRetries, retry, response,
                   errorToRetry, settled, events, result>>

\* controller.abort(reason) on the caller's signal.  The abort event runs
\* the listeners registered on the signal: handleAbort of a pending wait
\* removes itself, clears the timer and resolves the wait.
abort ==
    /\ Running
    /\ hasSignal
    /\ ~signalAborted
    /\ signalAborted' = TRUE
    /\ fetchSignalReason' =
           IF fetchSignalReason = Null THEN signalReason
           ELSE fetchSignalReason
    /\ IF pc = "wait" /\ abortListener
       THEN /\ abortListener' = FALSE
            /\ internalTimer' = FALSE
            /\ pc' = "woken"
       ELSE UNCHANGED <<abortListener, internalTimer, pc>>
    /\ UNCHANGED <<inputs, timeoutTimer,
                   attempt, errorRetries, rateLimitRetries, retry, response,
                   errorToRetry, settled, events, result>>

\* The timeout elapses and the AbortSignal.timeout(timeout) built by
\* composeSignal fires, while the call is under way or after it has ended
\* (nothing clears the timer when the call ends).
timeoutElapses ==
    /\ Running \/ pc \in {"returned", "thrown"}
    /\ timeoutTimer = "pending"
    /\ timeoutTimer' = "fired"
    /\ fetchSignalReason' =
           IF fetchSignalReason = Null THEN TimeoutReason
           ELSE fetchSignalReason
    /\ UNCHANGED <<inputs, signalAborted,
                   pc, attempt, errorRetries, rateLimitRetries, retry,
                   response, errorToRetry, settled, internalTimer,
                   abortListener, events, result>>

\* The signal of AbortSignal.timeout(timeout) is garbage collected and its
\* timer is cleared without firing.  Composed with the caller's signal
\* (lines 157-164) nothing of the call refers to it, so that it can be
\* collected at any time; alone it is the fetch signal, which
\* requestOptions holds until the call has ended.
timeoutCollected ==
    /\ timeoutTimer = "pending"
    /\ IF hasSignal THEN Running \/ pc \in {"returned", "thrown"}
       ELSE pc \in {"returned", "thrown"}
    /\ timeoutTimer' = "cleared"
    /\ UNCHANGED <<inputs, signalAborted, fetchSignalReason,
                   pc, attempt, errorRetries, rateLimitRetries, retry,
                   response, errorToRetry, settled, internalTimer,
                   abortListener, events, result>>

\* What the attempt in flight can settle with: an attempt whose signal is
\* aborted is rejected by the transport with the signal's reason; otherwise
\* the server replies, as scripted if it is.
Settlements ==
    IF fetchSignalAborted THEN {Rejected(fetchSignalReason)}
    ELSE IF server = <<>> THEN Outcomes(attempt)
    ELSE IF attempt <= Len(server) THEN {Outcome(server[attempt], attempt)}
    ELSE {}

\* Line 63: the attempt in flight settles with outcome o.
fetchSettles(o) ==
    /\ pc = "fetch"
    /\ o \in Settlements
    /\ settled' = o
    /\ pc' = "settled"
    /\ UNCHANGED <<inputs, signalAborted,
                   timeoutTimer, fetchSignalReason, attempt, errorRetries,
                   rateLimitRetries, retry, response, errorToRetry,
                   internalTimer, abortListener, events, result>>

\* Lines 71: throw e
Throw(e) ==
    /\ pc' = "thrown"
    /\ result' = e

\* Mutant: the loop is left with the composed signal's throwIfAborted().
throwIfAbortedOrReturn_ComposedReason(resp, aborted) ==
    IF aborted
    THEN /\ pc' = "thrown"
         /\ result' = fetchSignalReason
    ELSE /\ pc' = "returned"
         /\ result' = resp

\* Mutant: the loop is left without signal?.throwIfAborted().
throwIfAbortedOrReturn_NoThrow(resp, aborted) ==
    /\ pc' = "returned"
    /\ result' = resp

\* Lines 107-109: signal?.throwIfAborted(); return response
throwIfAbortedOrReturn(resp, aborted) ==
    IF aborted
    THEN /\ pc' = "thrown"
         /\ result' = signalReason
    ELSE /\ pc' = "returned"
         /\ result' = resp

\* Line 94: typeof onRetry === 'function'.  retryOptions.onRetry is the
\* caller's code: the options keep of it whether it "returns" from every
\* call or "throws" from some; without the field there is no callback.
onRetryPassed == "onRetry" \in DOMAIN cfg

\* The callback is one that can throw.
onRetryCanThrow ==
    IF onRetryPassed THEN cfg.onRetry = "throws" ELSE FALSE

\* What the onRetry call of attempt n throws.
OnRetryError(n) ==
    [name |-> "Error", cause |-> Null, source |-> "onRetry", at |-> n]

\* Line 126: Date.now() in the continuation of the current attempt.
Now == IF clock = <<>> THEN Clock ELSE {clock[attempt]}

\* Lines 64-109: the continuation of await fetch.  The catch block
\* classifies a rejection, the retry decision is taken, and either the
\* retry step runs up to the call of wait (lines 86-103) or the loop is
\* left (lines 105-109).
classify ==
    /\ pc = "settled"
    /\ LET rejected == settled.kind = "error"
           \* line 63 assigns response when fetch resolves, line 69 assigns
           \* errorToRetry in the catch block: the other local keeps the
           \* value it was given at the start of the iteration
           resp == IF rejected THEN response ELSE settled.value
       IN
       IF rejected /\ ~( /\ isErrorThatHaveToBeRetried(settled.value)
                         /\ ~hasReachedMaxRetries(errorRetries) )
       THEN /\ Throw(settled.value)
            /\ UNCHANGED <<signalAborted, fetchSignalReason, errorRetries,
                           rateLimitRetries, retry, response, errorToRetry,
                           internalTimer, abortListener, events>>
       ELSE
       LET err == IF rejected THEN settled.value ELSE errorToRetry
           rateLimitRetry ==
               /\ resp # Null
               /\ isRateLimitRetry(resp)
               /\ ~hasReachedRateLimitMaxRetries(rateLimitRetries)
           doRetry ==
               \/ err # Null
               \/ /\ resp # Null
                  /\ isResponseThatHaveToBeRetried(resp)
                  /\ ~hasReachedMaxRetries(errorRetries)
               \/ rateLimitRetry
       IN
       /\ response' = resp
       /\ errorToRetry' = err
       /\ retry' = doRetry
       /\ IF doRetry /\ ~signalIsAborted
          THEN \E now \in Now :
               \E callbackAborts \in
                      IF onRetryPassed /\ hasSignal THEN BOOLEAN
                      ELSE {FALSE},
                  callbackThrows \in
                      IF onRetryCanThrow THEN BOOLEAN ELSE {FALSE} :
                 LET byRateLimit == rateLimitRetry /\ resp # Null
                     newRateLimitRetries ==
                         IF byRateLimit THEN rateLimitRetries + 1
                         ELSE rateLimitRetries
                     newErrorRetries ==
                         IF byRateLimit THEN errorRetries
                         ELSE errorRetries + 1
                     delay ==
                         IF byRateLimit THEN getRateLimitDelay(resp, now)
                         ELSE getDelay(newErrorRetries)
                 IN
                 /\ rateLimitRetries' = newRateLimitRetries
                 /\ errorRetries' = newErrorRetries
                 \* lines 94-102: onRetry is called when there is one
                 /\ events' =
                        IF onRetryPassed
                        THEN Append(events,
                                 RetryEvent(err, resp, attempt, delay,
                                            rateLimitRetry))
                        ELSE events
                 \* onRetry is the caller's code: it may abort the signal
                 /\ signalAborted' = (signalAborted \/ callbackAborts)
                 /\ fetchSignalReason' =
                        IF callbackAborts /\ fetchSignalReason = Null
                        THEN signalReason ELSE fetchSignalReason
                 /\ IF callbackThrows
                    \* what onRetry throws leaves fetchWithRetries: wait
                    \* is not called
                    THEN /\ Throw(OnRetryError(attempt))
                         /\ UNCHANGED <<abortListener, internalTimer>>
                    \* wait(delay, signal) registers its listener and timer
                    ELSE /\ abortListener' = hasSignal
                         /\ internalTimer' = TRUE
                         /\ pc' = "wait"
                         /\ UNCHANGED result
          ELSE /\ throwIfAbortedOrReturn(resp, signalIsAborted)
               /\ UNCHANGED <<signalAborted, fetchSignalReason,
                              errorRetries, rateLimitRetries,
                              internalTimer, abortListener, events>>
    /\ settled' = Null
    /\ UNCHANGED <<inputs, timeoutTimer, attempt>>

\* wait's internalResolve: the timer fires, the listener is removed, the
\* wait resolves.
internalResolve ==
    /\ pc = "wait"
    /\ internalTimer
    /\ internalTimer' = FALSE
    /\ abortListener' = FALSE
    /\ pc' = "woken"
    /\ UNCHANGED <<inputs, signalAborted,
                   timeoutTimer, fetchSignalReason, attempt, errorRetries,
                   rateLimitRetries, retry, response, errorToRetry, settled,
                   events, result>>

\* Mutant: wait(delay, signal) is not awaited, the loop goes on while the
\* wait is pending.
loopAgain_NotAwaited ==
    /\ pc \in {"wait", "woken"}
    /\ IF retry /\ ~signalIsAborted
       THEN /\ response' = Null
            /\ errorToRetry' = Null
            /\ attempt' = attempt + 1
            /\ pc' = "fetch"
            /\ UNCHANGED result
       ELSE /\ throwIfAbortedOrReturn(response, signalIsAborted)
            /\ UNCHANGED <<response, errorToRetry, attempt>>
    /\ UNCHANGED <<inputs, signalAborted,
                   timeoutTimer, fetchSignalReason, errorRetries,
                   rateLimitRetries, retry, settled, internalTimer,
                   abortListener, events>>

\* Mutant: the iteration does not start by setting response and
\* errorToRetry to null (lines 58-59 left out).
loopAgain_NoReset ==
    /\ pc = "woken"
    /\ IF retry /\ ~signalIsAborted
       THEN /\ attempt' = attempt + 1
            /\ pc' = "fetch"
            /\ UNCHANGED <<result, response, errorToRetry>>
       ELSE /\ throwIfAbortedOrReturn(response, signalIsAborted)
            /\ UNCHANGED <<response, errorToRetry, attempt>>
    /\ UNCHANGED <<inputs, signalAborted,
                   timeoutTimer, fetchSignalReason, errorRetries,
                   rateLimitRetries, retry, settled, internalTimer,
                   abortListener, events>>

\* Lines 105 and 58-63, or 105-109: the continuation of await wait checks
\* the loop condition and issues the next attempt or leaves the loop.
loopAgain ==
    /\ pc = "woken"
    /\ IF retry /\ ~signalIsAborted
       THEN /\ response' = Null
            /\ errorToRetry' = Null
            /\ attempt' = attempt + 1
            /\ pc' = "fetch"
            /\ UNCHANGED result
       ELSE /\ throwIfAbortedOrReturn(response, signalIsAborted)
            /\ UNCHANGED <<response, errorToRetry, attempt>>
    /\ UNCHANGED <<inputs, signalAborted,
                   timeoutTimer, fetchSignalReason, errorRetries,
                   rateLimitRetries, retry, settled, internalTimer,
                   abortListener, events>>

Next ==
    \/ \E o \in Settlements : fetchSettles(o)
    \/ classify
    \/ internalResolve
    \/ loopAgain
    \/ abort
    \/ timeoutElapses
    \/ timeoutCollected

Spec == Init /\ [][Next]_vars

\* Without a signal and a timeout nothing aborts.
NextScripted ==
    \/ \E o \in Settlements : fetchSettles(o)
    \/ classify
    \/ internalResolve
    \/ loopAgain

SpecScripted == InitScripted /\ [][NextScripted]_vars

\* The calls whose waits are followed to their end: any signal and timeout,
\* the options that set initialDelay alone, without onRetry (how long a
\* wait is has no part in whether it ends, and no wait is started when
\* onRetry throws).
InitFair ==
    \E options \in { o \in RetryOptionsInputs :
                        "factor" \notin DOMAIN o /\ "onRetry" \notin DOMAIN o },
       sig \in BOOLEAN, tmo \in BOOLEAN :
        \E reason \in IF sig THEN SignalReasons ELSE {Null} :
            InitCall(<<>>, options, sig, reason, tmo)

\* The event loop runs a timer that is due: a pending setTimeout of wait
\* fires unless it is cleared first.
SpecFair == InitFair /\ [][Next]_vars /\ WF_vars(internalResolve)

\* The calls followed to their end: with a signal, with a timeout, or with
\* neither, and an onRetry that can throw at any of its calls or at none.
InitTerminates ==
    \E options \in { o \in RetryOptionsInputs :
                        "onRetry" \in DOMAIN o /\ "factor" \notin DOMAIN o },
       sig \in BOOLEAN, tmo \in BOOLEAN :
        \E reason \in IF sig THEN SignalReasons ELSE {Null} :
            /\ ~(sig /\ tmo)
            /\ InitCall(<<>>, options, sig, reason, tmo)

\* The event loop runs what is due: an attempt in flight settles, a queued
\* continuation runs, a pending timer fires unless it is cleared first.
SpecTerminates ==
    /\ InitTerminates
    /\ [][Next]_vars
    /\ WF_vars(\E o \in Settlements : fetchSettles(o))
    /\ WF_vars(classify)
    /\ WF_vars(internalResolve)
    /\ WF_vars(loopAgain)

----------------------------------------------------------------------------
(* The options of a call: mergeWithDefaultOptions on every partial object *)

Restrict(r, S) == [f \in S |-> r[f]]

\* A rateLimit object holding any of its two subfields.
PartialRateLimits ==
    { Restrict([maxRetries |-> r, maxDelay |-> d], S) :
        r \in {0, 5}, d \in {0, 500},
        S \in SUBSET {"maxRetries", "maxDelay"} }

\* A retryOptions object holding any of its fields but onRetry (it has no
\* default: the merge hands it on as it is).
PartialRetryOptions ==
    { Restrict([maxRetries |-> m, initialDelay |-> i, factor |-> f,
                rateLimit |-> rl], S) :
        m \in {0, 5}, i \in {0, 100}, f \in {1, 3},
        rl \in PartialRateLimits,
        S \in SUBSET {"maxRetries", "initialDelay", "factor", "rateLimit"} }

\* fetchWithRetries is called with some retryOptions.
InitOptions ==
    /\ retryOptions \in PartialRetryOptions
    /\ cfg = Null
    /\ pc = "call"
    /\ server = <<>>
    /\ clock = <<>>
    /\ previous = Null
    /\ other = Null
    /\ hasSignal = FALSE
    /\ hasTimeout = FALSE
    /\ signalReason = Null
    /\ signalAborted = FALSE
    /\ timeoutTimer = "none"
    /\ fetchSignalReason = Null
    /\ attempt = 0
    /\ errorRetries = 0
    /\ rateLimitRetries = 0
    /\ retry = FALSE
    /\ response = Null
    /\ errorToRetry = Null
    /\ settled = Null
    /\ internalTimer = FALSE
    /\ abortListener = FALSE
    /\ events = <<>>
    /\ result = Null

\* Lines 42-43: the destructuring of mergeWithDefaultOptions(retryOptions).
mergeOptions ==
    /\ pc = "call"
    /\ cfg' = mergeWithDefaultOptions(retryOptions)
    /\ pc' = "merged"
    /\ UNCHANGED <<server, clock, previous, other,
                   retryOptions, hasSignal, hasTimeout, signalReason,
                   signalAborted, timeoutTimer, fetchSignalReason, attempt,
                   errorRetries, rateLimitRetries, retry, response,
                   errorToRetry, settled, internalTimer, abortListener,
                   events, result>>

NextOptions == mergeOptions

SpecOptions == InitOptions /\ [][NextOptions]_vars

----------------------------------------------------------------------------
(* Replays and concurrent calls: calls against a scripted server and a     *)
(* scripted clock, run again with the same inputs, or two at a time        *)

\* Everything one fetchWithRetries call owns: its arguments and the locals
\* declared at lines 41-55 (and the state of its wait).
Locals ==
    [ server |-> server,
      clock |-> clock,
      retryOptions |-> retryOptions,
      cfg |-> cfg,
      hasSignal |-> hasSignal,
      hasTimeout |-> hasTimeout,
      signalReason |-> signalReason,
      signalAborted |-> signalAborted,
      timeoutTimer |-> timeoutTimer,
      fetchSignalReason |-> fetchSignalReason,
      pc |-> pc,
      attempt |-> attempt,
      errorRetries |-> errorRetries,
      rateLimitRetries |-> rateLimitRetries,
      retry |-> retry,
      response |-> response,
      errorToRetry |-> errorToRetry,
      settled |-> settled,
      internalTimer |-> internalTimer,
      abortListener |-> abortListener,
      events |-> events,
      result |-> result ]

\* The locals of a call that starts: lines 41-63 with no signal and no
\* timeout, the first attempt issued.
StartOfCall(script, readings, options) ==
    [ server |-> script,
      clock |-> readings,
      retryOptions |-> options,
      cfg |-> mergeWithDefaultOptions(options),
      hasSignal |-> FALSE,
      hasTimeout |-> FALSE,
      signalReason |-> Null,
      signalAborted |-> FALSE,
      timeoutTimer |-> "none",
      fetchSignalReason |-> Null,
      pc |-> "fetch",
      attempt |-> 1,
      errorRetries |-> 0,
      rateLimitRetries |-> 0,
      retry |-> FALSE,
      response |-> Null,
      errorToRetry |-> Null,
      settled |-> Null,
      internalTimer |-> FALSE,
      abortListener |-> FALSE,
      events |-> <<>>,
      result |-> Null ]

\* The call whose locals are r is the one that runs.
Enter(r) ==
    /\ server = r.server
    /\ clock = r.clock
    /\ retryOptions = r.retryOptions
    /\ cfg = r.cfg
    /\ hasSignal = r.hasSignal
    /\ hasTimeout = r.hasTimeout
    /\ signalReason = r.signalReason
    /\ signalAborted = r.signalAborted
    /\ timeoutTimer = r.timeoutTimer
    /\ fetchSignalReason = r.fetchSignalReason
    /\ pc = r.pc
    /\ attempt = r.attempt
    /\ errorRetries = r.errorRetries
    /\ rateLimitRetries = r.rateLimitRetries
    /\ retry = r.retry
    /\ response = r.response
    /\ errorToRetry = r.errorToRetry
    /\ settled = r.settled
    /\ internalTimer = r.internalTimer
    /\ abortListener = r.abortListener
    /\ events = r.events
    /\ result = r.result

\* The call whose locals are r is the one that takes the next step.
Resume(r) ==
    /\ server' = r.server
    /\ clock' = r.clock
    /\ retryOptions' = r.retryOptions
    /\ cfg' = r.cfg
    /\ hasSignal' = r.hasSignal
    /\ hasTimeout' = r.hasTimeout
    /\ signalReason' = r.signalReason
    /\ signalAborted' = r.signalAborted
    /\ timeoutTimer' = r.timeoutTimer
    /\ fetchSignalReason' = r.fetchSignalReason
    /\ pc' = r.pc
    /\ attempt' = r.attempt
    /\ errorRetries' = r.errorRetries
    /\ rateLimitRetries' = r.rateLimitRetries
    /\ retry' = r.retry
    /\ response' = r.response
    /\ errorToRetry' = r.errorToRetry
    /\ settled' = r.settled
    /\ internalTimer' = r.internalTimer
    /\ abortListener' = r.abortListener
    /\ events' = r.events
    /\ result' = r.result

\* Header values a server may send: integers, a negative one, text, a
\* decimal, digits followed by text, an integer after a no-break space, the
\* empty string.
HeaderValues ==
    { <<"0">>, <<"2">>, <<"-", "3">>, <<"s", "o", "o", "n">>,
      <<"1", ".", "5">>, <<"7", "x">>, <<NBSP, "5">>, <<>> }

\* Any combination of the two rate-limit headers.
AnyRateLimitHeaders ==
    { NoHeaders }
    \cup { {RetryAfter(v)} : v \in HeaderValues }
    \cup { {XRateLimitReset(v)} : v \in HeaderValues }
    \cup { {RetryAfter(v), XRateLimitReset(w)} :
              v \in HeaderValues, w \in HeaderValues }

\* What the replayed server replies.
ReplayedReplies ==
    { Resolved(sh) :
        sh \in [status : {200, 400, 429, 500, 503},
                headers : AnyRateLimitHeaders] }
    \cup { Rejected(sh) : sh \in ErrorShapes }

\* The options of the replayed calls.
ReplayedOptions ==
    { Spread([maxRetries |-> m,
              rateLimit |-> [maxRetries |-> r, maxDelay |-> 1500]], d) :
        m \in 0..2, r \in 0..1,
        d \in { [initialDelay |-> 0, onRetry |-> "returns"],
                [initialDelay |-> 1000, factor |-> 3,
                 onRetry |-> "returns"] } }

\* A server that gives the same reply once or twice and then a 200, a clock
\* reading for each of the attempts before the 200.
InitReplay ==
    /\ \E reply \in ReplayedReplies, k \in 1..2,
          options \in ReplayedOptions :
         \E readings \in [1..k -> Clock] :
            Enter(StartOfCall(Script(k, reply, Reply200), readings, options))
    /\ previous = Null
    /\ other = Null

\* What a run of the call leaves behind: how it ended, its onRetry events,
\* its counters.
Ending ==
    [ pc |-> pc, result |-> result, events |-> events, attempt |-> attempt,
      errorRetries |-> errorRetries, rateLimitRetries |-> rateLimitRetries ]

\* The call has ended (no other call is in progress): fetchWithRetries is
\* called again with the same arguments, the server and the clock replay.
rerun ==
    /\ pc \in {"returned", "thrown"}
    /\ previous = Null
    /\ IF other = Null THEN TRUE ELSE other.pc \in {"returned", "thrown"}
    /\ previous' = Ending
    /\ other' = Null
    /\ Resume(StartOfCall(server, clock, retryOptions))

NextReplay ==
    \/ \E o \in Settlements : fetchSettles(o)
    \/ classify
    \/ internalResolve
    \/ loopAgain
    \/ rerun

SpecReplay == InitReplay /\ [][NextReplay]_vars

\* What the server replies in the runs that are compared: failures of both
\* retry paths, one that is not retried, one whose delay reads the clock.
RunReplies ==
    { Reply503,
      Resolved([status |-> 429, headers |-> {RetryAfter(<<"2">>)}]),
      Resolved([status |-> 429, headers |-> {XRateLimitReset(<<"5">>)}]),
      Resolved([status |-> 503, headers |-> {XRateLimitReset(<<"5">>)}]),
      ReplyECONNRESET,
      Rejected(FetchError("ERR_INVALID_URL")) }

\* What one run is fed: up to two replies, any two, and then a 200, with a
\* clock reading for each attempt before the 200.
RunInputs ==
    UNION { { [server |-> s \o <<Reply200>>, clock |-> c] :
                s \in SequencesOf(RunReplies, n), c \in [1..n -> Clock] } :
            n \in 0..2 }

\* The options of the runs that are compared.
RunOptions ==
    { [maxRetries |-> m, initialDelay |-> 1000, factor |-> 3,
       onRetry |-> "returns",
       rateLimit |-> [maxRetries |-> r, maxDelay |-> 1500]] :
        m \in 0..1, r \in 0..1 }

\* A first run of a call: no signal, no timeout.
InitRuns ==
    /\ \E fed \in RunInputs, options \in RunOptions :
         Enter(StartOfCall(fed.server, fed.clock, options))
    /\ previous = Null
    /\ other = Null

\* What a run was fed and what it left behind.
RunRecord ==
    [ server |-> server, clock |-> clock, pc |-> pc, result |-> result,
      events |-> events, attempt |-> attempt, errorRetries |-> errorRetries,
      rateLimitRetries |-> rateLimitRetries ]

\* The call has ended: fetchWithRetries is called a second time with the
\* same options; what the server replies and what the clock reads this time
\* is again anything, the same as in the first run or not.
runAgain ==
    /\ pc \in {"returned", "thrown"}
    /\ previous = Null
    /\ other = Null
    /\ previous' = RunRecord
    /\ other' = Null
    /\ \E fed \in RunInputs :
         Resume(StartOfCall(fed.server, fed.clock, retryOptions))

NextRuns ==
    \/ \E o \in Settlements : fetchSettles(o)
    \/ classify
    \/ internalResolve
    \/ loopAgain
    \/ runAgain

SpecRuns == InitRuns /\ [][NextRuns]_vars

\* The calls made two at a time: the scripts of the test-suite, up to two
\* failures long, with the default budgets or a single retry.
ConcurrentCalls ==
    { StartOfCall(Script(k, failure, Reply200), <<>>, options) :
        k \in 0..2,
        failure \in {Reply503, Reply429RetryAfter0, ReplyECONNRESET},
        options \in { [initialDelay |-> 0, onRetry |-> "returns"],
                      [maxRetries |-> 1, initialDelay |-> 0,
                       onRetry |-> "returns"] } }

\* Two calls are in progress, each with its own server script.
InitTwoCalls ==
    /\ \E call \in ConcurrentCalls : Enter(call)
    /\ other \in ConcurrentCalls
    /\ previous = Null

\* Mutant: errorRetries is declared outside fetchWithRetries and shared by
\* the calls.
switch_SharedErrorRetries ==
    /\ other # Null
    /\ previous = Null
    /\ Resume([other EXCEPT !.errorRetries = errorRetries])
    /\ other' = Locals
    /\ UNCHANGED previous

\* The event loop runs a continuation, a timer or a settlement of the other
\* call: that call takes the next step, with its own locals.
switch ==
    /\ other # Null
    /\ previous = Null
    /\ Resume(other)
    /\ other' = Locals
    /\ UNCHANGED previous

NextTwoCalls ==
    \/ \E o \in Settlements : fetchSettles(o)
    \/ classify
    \/ internalResolve
    \/ loopAgain
    \/ switch
    \/ rerun

SpecTwoCalls == InitTwoCalls /\ [][NextTwoCalls]_vars

----------------------------------------------------------------------------
(* Rate-limit headers of the caller's own: a caller who names headers, a   *)
(* server that sends them                                                   *)

\* The value of the header parses as an integer.
Parseable(resp, name) ==
    NumberIsInteger(parseInt(headersGetOrEmpty(resp.headers, name)))

\* Headers a caller would name as rate-limit headers, each read as a
\* number of seconds to wait.
CustomHeaderNames == {"X-RateLimit-Wait", "X-Backoff"}

\* The names a caller gives, in the caller's order.
CustomHeaderLists ==
    { <<"X-RateLimit-Wait">>,
      <<"X-Backoff">>,
      <<"X-RateLimit-Wait", "X-Backoff">>,
      <<"X-Backoff", "X-RateLimit-Wait">> }

\* RetryOptions (lines 8-22) declares rateLimit.maxRetries and
\* rateLimit.maxDelay and no field for header names: a caller can hand the
\* names over only in a field the type does not declare.  The merge copies
\* it with the rest of rateLimit; nothing reads it.
CustomHeaderOptions ==
    { [initialDelay |-> 0, onRetry |-> "returns",
       rateLimit |-> [maxRetries |-> 1, maxDelay |-> 5000,
                      headers |-> custom]] :
        custom \in CustomHeaderLists }

\* A header of each name, absent or with one of three values.
RECURSIVE HeadersOver(_)
HeadersOver(names) ==
    IF names = {} THEN { {} }
    ELSE LET n == CHOOSE x \in names : TRUE
             rest == HeadersOver(names \ {n})
         IN  rest \cup { hs \cup {<<n, v>>} :
                           hs \in rest,
                           v \in { <<"1">>, <<"7">>, <<"s", "o", "o", "n">> } }

\* A server that replies once with a 429 or a 503 carrying any of the four
\* headers and then with a 200; no signal, no timeout.
InitHeaders ==
    /\ \E options \in CustomHeaderOptions, status \in {429, 503},
          headers \in HeadersOver({"Retry-After", "X-RateLimit-Reset"}
                                  \cup CustomHeaderNames),
          now \in Clock :
         Enter(StartOfCall(
                   Script(1, Resolved([status |-> status,
                                       headers |-> headers]), Reply200),
                   <<now>>, options))
    /\ previous = Null
    /\ other = Null

SpecHeaders == InitHeaders /\ [][NextScripted]_vars

----------------------------------------------------------------------------
(* Transport errors: a server that fails the same way on every attempt      *)

\* Cause codes a failed attempt can carry: the transient ones, codes that
\* are not in the list (one differing from a listed code by its case only),
\* and a cause with no code ("").
CauseCodes ==
    RETRY_ERROR_CODES
    \cup {"ERR_INVALID_URL", "UND_ERR_SOCKET", "econnreset", ""}

\* What fetch can reject with: a TypeError with a cause, or with none, a
\* TimeoutError (with or without a cause), an AbortError.
TransportErrors ==
    { FetchError(c) : c \in CauseCodes }
    \cup { [name |-> n, cause |-> c, source |-> "network"] :
             n \in {"TypeError", "TimeoutError", "AbortError"},
             c \in {Null, [code |-> "ERR_INVALID_URL"]} }

\* The calls against a server whose every attempt but the last fails with
\* the same transport error: no signal, no timeout.
InitErrors ==
    /\ \E e \in TransportErrors, k \in 1..3,
          options \in { [maxRetries |-> m, initialDelay |-> 0,
                          onRetry |-> "returns"] : m \in 0..2 } :
         Enter(StartOfCall(Script(k, Rejected(e), Reply200), <<>>, options))
    /\ previous = Null
    /\ other = Null

SpecErrors == InitErrors /\ [][NextScripted]_vars

----------------------------------------------------------------------------
(* Recoveries: a server that fails a number of times in a way that is      *)
(* retried on the error path, and then replies 200                         *)

\* The failures of the error path: every retryable status with no
\* rate-limit header, every transient transport error, a TimeoutError.
ErrorPathFailures ==
    { Resolved([status |-> s, headers |-> NoHeaders]) :
        s \in RETRY_STATUS_CODES }
    \cup { Rejected(FetchError(c)) : c \in RETRY_ERROR_CODES }
    \cup { Rejected([name |-> "TimeoutError", cause |-> Null,
                     source |-> "network"]) }

\* Failures of different kinds that follow one another in one script.
MixedFailures ==
    { Resolved([status |-> 408, headers |-> NoHeaders]),
      Resolved([status |-> 429, headers |-> NoHeaders]),
      ReplyECONNRESET }

\* k failures and then a 200 (nock: times(k).reply(status), reply(200)):
\* the same failure k times, for every failure, or failures of different
\* kinds.
RecoveryScripts ==
    { Script(k, failure, Reply200) :
        k \in 0..(MaxFailuresBeforeOk + 1), failure \in ErrorPathFailures }
    \cup { s \o <<Reply200>> :
             s \in UNION { SequencesOf(MixedFailures, n) :
                             n \in 2..MaxFailuresBeforeOk } }

\* The calls of the tests: the default budget or a budget of the caller's,
\* initialDelay 0, no signal and no timeout.
InitRecovers ==
    /\ \E script \in RecoveryScripts,
          options \in { [initialDelay |-> 0, onRetry |-> "returns"] }
                      \cup { [maxRetries |-> m, initialDelay |-> 0,
                               onRetry |-> "returns"] :
                               m \in 0..MaxFailuresBeforeOk } :
         Enter(StartOfCall(script, <<>>, options))
    /\ previous = Null
    /\ other = Null

SpecRecovers == InitRecovers /\ [][NextScripted]_vars

----------------------------------------------------------------------------
(* Properties *)

Last(seq) == seq[Len(seq)]

\* The number of onRetry invocations that n retries come with: one for each
\* retry when the caller passed onRetry, none when not (line 94).
Invocations(n) == IF onRetryPassed THEN n ELSE 0

\* The step is one in which onRetry, called for the current attempt, threw:
\* the call raises what it threw and no wait is started.
OnRetryThrew ==
    /\ onRetryCanThrow
    /\ pc' = "thrown"
    /\ result' = OnRetryError(attempt)
    /\ ~internalTimer'
    /\ ~abortListener'

\* The error is one the documentation lists as not worth a retry: no
\* transient cause code and not a timeout.
NotTransient(e) ==
    /\ e.name # "TimeoutError"
    /\ e.cause = Null \/ e.cause.code \notin RETRY_ERROR_CODES

\* Every retry so far followed a transport error / a response.
AllRetriesAfterError == \A i \in 1..Len(events) : events[i].error # Null
AllRetriesAfterResponse ==
    \A i \in 1..Len(events) : events[i].response # Null

\* C1: in every reachable state of a call errorRetries <= maxRetries and
\* rateLimitRetries <= rateLimit.maxRetries: no retry pushes a counter
\* past its budget.
C1_CountersWithinBudgets ==
    /\ errorRetries <= cfg.maxRetries
    /\ rateLimitRetries <= cfg.rateLimit.maxRetries

\* Both budgets are used up and one more retryable response arrived: it is
\* returned, not retried.
C1_Witness ==
    /\ pc = "returned"
    /\ isResponseThatHaveToBeRetried(result)
    /\ errorRetries = cfg.maxRetries
    /\ rateLimitRetries = cfg.rateLimit.maxRetries
    /\ errorRetries >= 1
    /\ rateLimitRetries >= 1

\* C2: the number of onRetry invocations of a call never exceeds
\* maxRetries + rateLimit.maxRetries.
C2_OnRetryBounded ==
    Len(events) <= cfg.maxRetries + cfg.rateLimit.maxRetries

C2_Witness ==
    /\ Len(events) = cfg.maxRetries + cfg.rateLimit.maxRetries
    /\ cfg.maxRetries >= 1
    /\ cfg.rateLimit.maxRetries >= 1
    /\ \E i \in 1..Len(events) : events[i].rateLimitRetry

\* C3: when every attempt fails with a retryable transport error the call
\* raises at attempt maxRetries + 1, the raised error is the error of that
\* attempt, exactly maxRetries onRetry invocations came before and the
\* last of them carries attempt = maxRetries.
C3_RetryableErrorExhaustsBudget ==
    ( /\ pc = "thrown"
      /\ result.source = "network"
      /\ ~NotTransient(result)
      /\ AllRetriesAfterError
      /\ rateLimitRetries = 0 )
    => /\ attempt = cfg.maxRetries + 1
       /\ result.at = attempt
       /\ Len(events) = Invocations(cfg.maxRetries)
       /\ events # <<>> => Last(events).attempt = cfg.maxRetries

C3_Witness ==
    /\ pc = "thrown"
    /\ result.source = "network"
    /\ ~NotTransient(result)
    /\ AllRetriesAfterError
    /\ Len(events) = 2

\* C4: a transport error that is not retryable is propagated at once, on
\* any attempt and whatever budget remains: the continuation of the attempt
\* raises that error, increments no counter, calls no onRetry and starts no
\* wait; on the first attempt the call ends with no retry and no callback.
C4_NonRetryableErrorPropagates ==
    [][ ( /\ pc = "settled"
          /\ settled.kind = "error"
          /\ NotTransient(settled.value)
          /\ pc' # "settled" )
        => /\ pc' = "thrown"
           /\ result' = settled.value
           /\ UNCHANGED <<errorRetries, rateLimitRetries, events, attempt,
                          internalTimer, abortListener>>
           /\ attempt = 1 =>
                 events' = <<>> /\ errorRetries' = 0 /\ rateLimitRetries' = 0
      ]_vars

\* A malformed-URL kind of error raised after a retry, with budget left.
C4_Witness ==
    /\ pc = "thrown"
    /\ result.source = "network"
    /\ NotTransient(result)
    /\ result.at = 2
    /\ errorRetries < cfg.maxRetries
    /\ rateLimitRetries < cfg.rateLimit.maxRetries
    /\ Len(events) = 1

NoRateLimitRetrySoFar == \A i \in 1..Len(events) : ~events[i].rateLimitRetry
OnlyRateLimitRetriesSoFar ==
    \A i \in 1..Len(events) : events[i].rateLimitRetry

Ended == pc \in {"returned", "thrown"}

\* The call ended by raising what onRetry threw.
EndedByOnRetry == pc = "thrown" /\ result.source = "onRetry"

\* C5: when the attempts keep returning a retryable status with no
\* rate-limit header, the call does not raise: it returns the response of
\* attempt maxRetries + 1 (ok = false, its status kept) after exactly
\* maxRetries onRetry invocations, each with rateLimitRetry = false.  A call
\* that holds a response raises only because the caller's signal aborted,
\* or because onRetry threw before the attempts were all made.
C5_RetryableStatusExhaustsBudget ==
    /\ ( /\ pc = "returned"
         /\ result.status \in RETRY_STATUS_CODES
         /\ result.headers = NoHeaders
         /\ AllRetriesAfterResponse
         /\ rateLimitRetries = 0 )
       => /\ result.at = cfg.maxRetries + 1
          /\ attempt = cfg.maxRetries + 1
          /\ ~ok(result)
          /\ Len(events) = Invocations(cfg.maxRetries)
          /\ NoRateLimitRetrySoFar
    /\ (pc = "thrown" /\ response # Null)
       => \/ signalIsAborted /\ result = signalReason
          \/ /\ onRetryCanThrow
             /\ result = OnRetryError(attempt)
             /\ attempt <= cfg.maxRetries + cfg.rateLimit.maxRetries

C5_Witness ==
    /\ pc = "returned"
    /\ result.status = 504
    /\ result.headers = NoHeaders
    /\ AllRetriesAfterResponse
    /\ rateLimitRetries = 0
    /\ Len(events) = 2
    /\ cfg.rateLimit.maxRetries >= 1

\* C6: for every k <= maxRetries and every failure of the error path (a
\* retryable status without rate-limit headers, a retryable transport
\* error), k such failures followed by a 200 make the call return that 200
\* (ok = true, the response of attempt k + 1) after exactly k onRetry
\* invocations, the i-th carrying attempt = i and rateLimitRetry = false,
\* so the last carries attempt = k; until then the call goes on.
C6_SuccessAfterRetries ==
    LET k == Len(server) - 1
    IN  k <= cfg.maxRetries =>
            /\ Ended =>
                  /\ pc = "returned"
                  /\ result.status = 200
                  /\ ok(result)
                  /\ result.at = k + 1
                  /\ Len(events) = k
                  /\ \A i \in 1..k : /\ events[i].attempt = i
                                     /\ ~events[i].rateLimitRetry
                  /\ k > 0 => Last(events).attempt = k
                  /\ errorRetries = k
            /\ ~Ended =>
                  /\ ENABLED NextScripted
                  /\ attempt <= k + 1

\* The budget is used to the last retry: a 408, a connection reset and a
\* third failure, then the 200, with maxRetries = 3.
C6_Witness ==
    /\ pc = "returned"
    /\ result.status = 200
    /\ Len(server) = 4
    /\ cfg.maxRetries = 3
    /\ server[1].kind = "response" /\ server[1].value.status = 408
    /\ server[2] = ReplyECONNRESET
    /\ Len(events) = 3
    /\ events[1].response # Null
    /\ events[2].error # Null

FourTimes503Then200 == Script(4, Reply503, Reply200)

\* C7 as stated: with maxRetries = 3, four 503 responses followed by a 200
\* yield 3 retries, each with rateLimitRetry = false, and a final response
\* with ok = true.
C7_Original ==
    (Ended /\ server = FourTimes503Then200 /\ cfg.maxRetries = 3)
    => /\ pc = "returned"
       /\ Len(events) = Invocations(3)
       /\ NoRateLimitRetrySoFar
       /\ ok(result)

\* C7, amended: with maxRetries = 3, four 503 responses followed by a 200
\* yield 3 retries, each with rateLimitRetry = false, and the call returns
\* the fourth 503 (ok = false); the 200 is never requested.
C7_FourthResponseReturned ==
    (Ended /\ server = FourTimes503Then200 /\ cfg.maxRetries = 3)
    => /\ pc = "returned"
       /\ Len(events) = Invocations(3)
       /\ NoRateLimitRetrySoFar
       /\ result.status = 503
       /\ ~ok(result)
       /\ result.at = 4
       /\ attempt = 4

C7_Witness ==
    /\ pc = "returned"
    /\ server = FourTimes503Then200
    /\ cfg.maxRetries = 3
    /\ Len(events) = 3

TenTimesRetryAfter0Then200 ==
    { Script(10, Reply429RetryAfter0, Reply200),
      Script(10, Reply503RetryAfter0, Reply200) }

\* C8: with rateLimit.maxRetries = 10 (and maxRetries = 3), a 429 or a 503
\* with Retry-After: 0 ten times and then a 200 yields exactly 10 retries,
\* each with rateLimitRetry = true, and a final response with ok = true;
\* errorRetries stays 0.
C8_TenRateLimitRetries ==
    ( /\ Ended
      /\ server \in TenTimesRetryAfter0Then200
      /\ cfg.rateLimit.maxRetries = 10
      /\ cfg.maxRetries = 3 )
    => /\ pc = "returned"
       /\ Len(events) = Invocations(10)
       /\ OnlyRateLimitRetriesSoFar
       /\ ok(result)
       /\ result.at = 11
       /\ errorRetries = 0
       /\ rateLimitRetries = 10

C8_Witness ==
    /\ pc = "returned"
    /\ server = Script(10, Reply503RetryAfter0, Reply200)
    /\ cfg.rateLimit.maxRetries = 10
    /\ cfg.maxRetries = 3
    /\ Len(events) = 10

\* C9: a first attempt that succeeds with a 200 makes the call return that
\* response with no retry and no onRetry invocation, for every
\* configuration (budgets, delays, with or without signal and timeout, the
\* signal not being aborted when the response arrives).
C9_FirstAttemptOk ==
    [][ ( /\ pc = "settled"
          /\ attempt = 1
          /\ settled.kind = "response"
          /\ settled.value.status = 200
          /\ ~signalIsAborted
          /\ pc' # "settled" )
        => /\ pc' = "returned"
           /\ result' = settled.value
           /\ events' = <<>>
           /\ errorRetries' = 0
           /\ rateLimitRetries' = 0
           /\ attempt' = 1
           /\ ~internalTimer'
      ]_vars

C9_Witness ==
    /\ pc = "returned"
    /\ result.status = 200
    /\ result.at = 1
    /\ result.headers # NoHeaders
    /\ events = <<>>
    /\ cfg.maxRetries >= 1
    /\ cfg.rateLimit.maxRetries >= 1

\* C10 as stated: a response is retried under the error-retry budget if and
\* only if its status is one of 408, 425, 429, 500, 502, 503, 504, it is not
\* ok and errorRetries < maxRetries.  Seen from the wait that follows the
\* retry: a response whose retry was counted as a rate-limit retry (which
\* leaves errorRetries as it was) is then not one of those.
C10_Original ==
    ( /\ pc = "wait"
      /\ response # Null
      /\ onRetryPassed
      /\ Last(events).rateLimitRetry )
    => ~( /\ response.status \in RETRY_STATUS_CODES
          /\ ~ok(response)
          /\ errorRetries < cfg.maxRetries )

\* C10, amended: a response that is not retried as a rate-limit retry (it
\* is not rate-limit eligible, or the rate-limit budget is used up) is
\* retried under the error-retry budget if and only if its status is one of
\* 408, 425, 429, 500, 502, 503, 504, it is not ok and errorRetries <
\* maxRetries (the retry counts and is reported to onRetry, and the wait
\* starts unless onRetry throws); every other such response, a 400 for one,
\* is returned at once as the result, with no retry, whatever budget
\* remains.
C10_StatusRetry ==
    [][ ( /\ pc = "settled"
          /\ settled.kind = "response"
          /\ ~signalIsAborted
          /\ ~( /\ isRateLimitRetry(settled.value)
                /\ rateLimitRetries < cfg.rateLimit.maxRetries )
          /\ pc' # "settled" )
        => IF /\ settled.value.status \in {408, 425, 429, 500, 502, 503, 504}
              /\ ~(settled.value.status \in 200..299)
              /\ errorRetries < cfg.maxRetries
           THEN /\ pc' = "wait" \/ OnRetryThrew
                /\ errorRetries' = errorRetries + 1
                /\ rateLimitRetries' = rateLimitRetries
                /\ IF onRetryPassed
                   THEN /\ Len(events') = Len(events) + 1
                        /\ ~Last(events').rateLimitRetry
                   ELSE events' = events
           ELSE /\ pc' = "returned"
                /\ result' = settled.value
                /\ UNCHANGED <<errorRetries, rateLimitRetries, events,
                               internalTimer>>
      ]_vars

\* A 400 that follows a retried response is returned with budget left.
C10_Witness ==
    /\ pc = "returned"
    /\ result.status = 400
    /\ result.at = 2
    /\ Len(events) = 1
    /\ events[1].response # Null
    /\ ~events[1].rateLimitRetry
    /\ errorRetries < cfg.maxRetries

\* The field f of the object r holds v.
Holds(r, f, v) == f \in DOMAIN r /\ r[f] = v

\* The merged field is the caller's when provided, else the default.
MergedField(provided, merged, defaults, f) ==
    IF f \in DOMAIN provided THEN Holds(merged, f, provided[f])
    ELSE Holds(merged, f, defaults[f])

\* C18: for every partial retryOptions, every field the caller leaves out
\* takes its default (maxRetries 3, initialDelay 1000, factor 2,
\* rateLimit.maxRetries 10, rateLimit.maxDelay 60000) and every provided
\* field keeps the caller's value, subfield by subfield of rateLimit.
C18_DefaultsPerSubfield ==
    pc = "merged" =>
        /\ \A f \in {"maxRetries", "initialDelay", "factor"} :
                MergedField(retryOptions, cfg, DefaultOptions, f)
        /\ "rateLimit" \in DOMAIN cfg
        /\ \A f \in {"maxRetries", "maxDelay"} :
                MergedField(IF "rateLimit" \in DOMAIN retryOptions
                                THEN retryOptions.rateLimit
                                ELSE [g \in {} |-> 0],
                            cfg.rateLimit, DefaultRateLimit, f)

\* C11: when the caller's signal fires during an inter-retry wait, the wait
\* ends at once (its timer is dropped), the continuation raises the
\* signal's reason, onRetry has been called once per attempt completed
\* before the abort and no attempt is issued after it.
C11_AbortDuringWait ==
    [][ /\ (pc = "wait" /\ abortListener /\ ~signalAborted /\ signalAborted')
            => /\ pc' = "woken"
               /\ ~internalTimer'
               /\ events' = events
               /\ attempt' = attempt
               /\ Len(events) = Invocations(attempt)
        /\ (pc = "woken" /\ hasSignal /\ signalAborted /\ pc' # pc)
            => /\ pc' = "thrown"
               /\ result' = signalReason
               /\ events' = events
               /\ attempt' = attempt
               /\ Len(events') = Invocations(attempt') ]_vars

\* The test's case: one retry allowed, the signal aborted during the wait
\* that follows the first attempt.
C11_Witness ==
    /\ pc = "thrown"
    /\ hasSignal /\ signalAborted
    /\ result = signalReason
    /\ cfg.maxRetries = 1
    /\ attempt = 1
    /\ Len(events) = 1
    /\ events[1].error # Null

\* C12: an attempt rejected because the caller's signal fired while it was
\* in flight is not retried: no counter moves, onRetry is not called, no
\* wait is started and the call raises the signal's reason, whatever the
\* reason (a TimeoutError included) and with or without a fixed timeout.
C12_AbortInFlight ==
    [][ ( /\ pc = "settled"
          /\ settled.kind = "error"
          /\ settled.value.source = "signal"
          /\ pc' # pc )
        => /\ pc' = "thrown"
           /\ result' = signalReason
           /\ result' = settled.value
           /\ errorRetries' = errorRetries
           /\ rateLimitRetries' = rateLimitRetries
           /\ events' = events
           /\ ~internalTimer' /\ ~abortListener' ]_vars

\* The test's case: the signal is an AbortSignal.timeout, a longer fixed
\* timeout is supplied too, retries are allowed, none is made.
C12_Witness ==
    /\ pc = "thrown"
    /\ result = signalReason
    /\ signalReason.name = "TimeoutError"
    /\ hasTimeout /\ ~timeoutFired
    /\ cfg.maxRetries >= 1
    /\ attempt = 1
    /\ events = <<>>

\* One of the two cancellation sources fires in this step.
SignalFires == ~signalAborted /\ signalAborted'
TimeoutFires == ~timeoutFired /\ timeoutFired'

\* Nothing of a retry happens in this step: no attempt is issued, no counter
\* moves, onRetry is not called, no wait is started.
NoRetryStep ==
    /\ attempt' = attempt
    /\ errorRetries' = errorRetries
    /\ rateLimitRetries' = rateLimitRetries
    /\ events' = events
    /\ pc' = "wait" => pc = "wait"

\* C13 as stated: with a signal and a timeout supplied, whichever fires
\* cancels the call: a pending wait is interrupted by the firing and from
\* then on nothing of a retry happens.
C13_Original ==
    [][ (hasSignal /\ hasTimeout) =>
          /\ (pc = "wait" /\ (SignalFires \/ TimeoutFires)) => pc' = "woken"
          /\ (signalAborted \/ timeoutFired) => NoRetryStep ]_vars

\* C13, amended: with a signal and a timeout supplied, the caller's signal
\* cancels the call (a pending wait is interrupted when it fires, and from
\* then on nothing of a retry happens); the timeout firing interrupts
\* nothing, and an attempt it rejects is retried under the error budget
\* (the wait starts unless onRetry throws).
C13_OnlySignalCancels ==
    [][ (hasSignal /\ hasTimeout) =>
          /\ (pc = "wait" /\ abortListener /\ SignalFires)
                => pc' = "woken" /\ ~internalTimer'
          /\ signalAborted => NoRetryStep
          /\ TimeoutFires => pc' = pc /\ internalTimer' = internalTimer
          /\ ( /\ pc = "settled"
                /\ settled = Rejected(TimeoutReason)
                /\ ~signalAborted
                /\ errorRetries < cfg.maxRetries
                /\ pc' # pc )
                => /\ pc' = "wait" \/ OnRetryThrew
                   /\ errorRetries' = errorRetries + 1
                   /\ IF onRetryPassed
                      THEN /\ Len(events') = Len(events) + 1
                           /\ Last(events').error = Ref(TimeoutReason)
                      ELSE events' = events ]_vars

\* Both supplied: the timeout fired and its TimeoutError was retried, then
\* the signal fired and the call raised the signal's reason.
C13_Witness ==
    /\ hasSignal /\ hasTimeout
    /\ timeoutFired /\ signalAborted
    /\ pc = "thrown"
    /\ result = signalReason
    /\ events # <<>>
    /\ Last(events).error = Ref(TimeoutReason)
    /\ attempt >= 2

\* C14: the error a cancelled call raises tells which source fired.  An
\* error that is the signal's reason is raised only after the caller's
\* signal fired; the timeout's TimeoutError only after the fixed timeout
\* elapsed; a call that leaves the loop on the caller's signal (after a
\* wait, or with a response in hand) raises the signal's reason, also when
\* the timeout has fired as well; a rejection by one of the two sources is
\* raised as it is unless the caller's signal has fired.  (A call that
\* onRetry ends by throwing is not one that ends because of cancellation.)
C14_ReasonNamesSource ==
    [][ (pc' = "thrown" /\ pc # "thrown" /\ result'.source # "onRetry") =>
          /\ result'.source = "signal"
                => hasSignal /\ signalAborted /\ result' = signalReason
          /\ result'.source = "timeout"
                => /\ hasTimeout /\ timeoutFired
                   /\ result' = TimeoutReason
                   /\ result'.name = "TimeoutError"
          /\ (pc = "woken" \/ (pc = "settled" /\ settled.kind = "response"))
                => hasSignal /\ signalAborted /\ result' = signalReason
          /\ (pc = "settled" /\ settled.kind = "error")
                => \/ result' = settled.value
                   \/ hasSignal /\ signalAborted /\ result' = signalReason
          /\ (~signalAborted /\ result'.source # "network")
                => result' = TimeoutReason
          /\ (~timeoutFired /\ result'.source # "network")
                => result' = signalReason ]_vars

\* Both sources supplied, the signal one that aborts with a TimeoutError of
\* its own: the fixed timeout fired, its error was retried until the budget
\* was used up and then raised, the signal never fired.
C14_Witness ==
    /\ hasSignal /\ hasTimeout
    /\ signalReason.name = "TimeoutError"
    /\ timeoutFired /\ ~signalAborted
    /\ pc = "thrown"
    /\ result = TimeoutReason
    /\ result # signalReason
    /\ cfg.maxRetries >= 1
    /\ errorRetries = cfg.maxRetries

\* The onRetry calls of the error branch (the ones that count against
\* maxRetries).
ErrorBudgetEvents == { i \in 1..Len(events) : ~events[i].rateLimitRetry }

\* C15: with a fixed timeout and no signal, an attempt rejected because the
\* timeout elapsed is retried on the error budget.  When the call raises
\* the TimeoutError the budget is used up: exactly maxRetries onRetry calls
\* of the error branch precede it, the last attempt was rejected by the
\* timeout without an onRetry call, and with maxRetries = 1 and no
\* rate-limit retry there is exactly one call, for attempt 1.
C15_TimeoutConsumesBudget ==
    (~hasSignal /\ hasTimeout /\ pc = "thrown" /\ result = TimeoutReason)
    => /\ result.name = "TimeoutError"
       /\ timeoutFired
       /\ errorRetries = cfg.maxRetries
       /\ Cardinality(ErrorBudgetEvents) = Invocations(cfg.maxRetries)
       /\ rateLimitRetries = 0 =>
              /\ Len(events) = Invocations(cfg.maxRetries)
              /\ attempt = cfg.maxRetries + 1
       /\ (cfg.maxRetries = 1 /\ rateLimitRetries = 0 /\ onRetryPassed) =>
              /\ events[1].attempt = 1
              /\ Len(events) = 1

\* The test's case: one retry allowed, the first attempt rejected by the
\* timeout and reported to onRetry, the second rejected and raised.
C15_Witness ==
    /\ ~hasSignal /\ hasTimeout
    /\ cfg.maxRetries = 1
    /\ pc = "thrown"
    /\ result = TimeoutReason
    /\ Len(events) = 1
    /\ events[1].attempt = 1
    /\ events[1].error = Ref(TimeoutReason)
    /\ attempt = 2

\* C16: onRetry is called in strict attempt order.  A call is made in the
\* continuation of an attempt that has settled, for that attempt, in the
\* step that then starts the wait unless onRetry throws (no wait of this
\* attempt is pending before it); when the next attempt is issued every
\* call made so far is for an earlier attempt, and the attempt values are
\* strictly increasing.
C16_OnRetryInOrder ==
    [][ /\ events' # events
            => /\ pc = "settled" /\ ~internalTimer
               /\ (pc' = "wait" /\ internalTimer') \/ OnRetryThrew
               /\ attempt' = attempt
               /\ Len(events') = Len(events) + 1
               /\ SubSeq(events', 1, Len(events)) = events
               /\ Last(events').attempt = attempt
               /\ \A i \in 1..Len(events) : events[i].attempt < attempt
        /\ attempt' # attempt
            => /\ events' = events
               /\ \A i \in 1..Len(events) : events[i].attempt < attempt'
        /\ \A i, j \in 1..Len(events') :
               i < j => events'[i].attempt < events'[j].attempt ]_vars

\* Three retries have been reported, for the attempts 1, 2 and 3, and the
\* wait after the third is pending.
C16_Witness ==
    /\ pc = "wait"
    /\ attempt = 3
    /\ Len(events) = 3
    /\ \A i \in 1..3 : events[i].attempt = i

\* C17: at most one attempt is in flight.  The attempt counter moves by one,
\* from the continuation of a wait that has returned (no timer pending, the
\* previous attempt settled and processed); while an attempt is in flight
\* every earlier attempt has completed and been reported and no wait is
\* pending; while a wait is pending, or has just returned, every attempt
\* issued has completed.
C17_OneAttemptInFlight ==
    [][ /\ attempt' # attempt
            => /\ pc = "woken" /\ pc' = "fetch"
               /\ attempt' = attempt + 1
               /\ ~internalTimer /\ ~abortListener
               /\ settled = Null
        /\ pc' = "fetch"
            => /\ ~internalTimer' /\ ~abortListener'
               /\ settled' = Null
               /\ Len(events') = Invocations(attempt' - 1)
        /\ pc' \in {"wait", "woken"}
            => /\ settled' = Null
               /\ Len(events') = Invocations(attempt')
        /\ internalTimer' => pc' = "wait" ]_vars

\* The third attempt is in flight, after two retries.
C17_Witness ==
    /\ pc = "fetch"
    /\ attempt = 3
    /\ Len(events) = 2
    /\ ~internalTimer

\* C19: wait never rejects and always resolves.  A pending wait ends only
\* by resolving (the call goes on with the continuation of await wait,
\* nothing is raised from the wait itself); it resolves at once when the
\* signal it listens to fires, and otherwise its timer stays pending, so
\* that it resolves when the duration has elapsed; the call raises the
\* signal's reason only from a continuation that checked the signal.
C19_WaitResolves ==
    /\ [][ /\ (pc = "wait" /\ pc' # pc)
               => /\ pc' = "woken"
                  /\ result' = result
           /\ (pc = "wait" /\ abortListener /\ SignalFires)
               => pc' = "woken"
           /\ (pc' = "thrown" /\ pc # pc')
               => pc \in {"settled", "woken"} ]_vars
    /\ [](pc = "wait" => internalTimer /\ ENABLED internalResolve)
    /\ (pc = "wait") ~> (pc = "woken")

\* A wait has resolved with the signal aborted and nothing raised: the
\* continuation is about to check the signal.
C19_Witness ==
    /\ pc = "woken"
    /\ hasSignal /\ signalAborted
    /\ retry
    /\ result = Null

\* C20 as stated: a wait that has completed leaves neither its timer nor
\* its abort listener registered and cannot be resolved a second time, and
\* when the call has ended no timer and no abort listener that the call
\* created is pending.
C20_Original ==
    /\ pc # "wait" =>
          /\ ~internalTimer
          /\ ~abortListener
          /\ ~ENABLED internalResolve
    /\ Ended => ~timeoutTimerPending

\* C20, amended: a wait that has completed leaves nothing registered.
\* Outside a pending wait neither its timer nor its abort listener is
\* registered, so nothing can resolve it a second time, and none of the two
\* is left when the call has ended; a pending wait holds its timer, and its
\* listener when there is a signal to listen to.  (The timer behind
\* AbortSignal.timeout(timeout) is not the wait's and the call does not
\* clear it: it can be pending when the call has ended, until it fires or
\* its signal is collected.)
C20_NothingLeftRegistered ==
    /\ pc # "wait" =>
          /\ ~internalTimer
          /\ ~abortListener
          /\ ~ENABLED internalResolve
    /\ pc = "wait" =>
          /\ internalTimer
          /\ abortListener = hasSignal

\* The call has ended after two waits: the first ran to its timer (a second
\* attempt was issued), the second ended with the signal aborted; nothing of
\* the waits is registered, the timer of the timeout is still pending.
C20_Witness ==
    /\ pc = "thrown"
    /\ hasSignal /\ signalAborted
    /\ result = signalReason
    /\ attempt = 2
    /\ Len(events) = 2
    /\ ~internalTimer /\ ~abortListener
    /\ timeoutTimerPending

\* What a run has been fed by the time of its n-th attempt: the outcomes of
\* the attempts and the clock readings scripted for them.
Fed(script, readings, n) ==
    [ outcomes |-> SubSeq(script, 1, Min(n, Len(script))),
      readings |-> SubSeq(readings, 1, Min(n, Len(readings))) ]

\* C21: two runs of fetchWithRetries with the same configuration, each fed
\* outcomes and clock readings of its own.  Whenever the second run has so
\* far been fed the same attempt outcomes and the same clock readings as the
\* first, it has reported the same onRetry events (attempt, delay,
\* rateLimitRetry), and if it has ended it ended at the same attempt, the
\* same way, with the same result, events and counters.
C21_ReplayIsTheSame ==
    ( IF previous = Null THEN FALSE
      ELSE Fed(server, clock, attempt)
               = Fed(previous.server, previous.clock, attempt) )
    => /\ Len(events) <= Len(previous.events)
       /\ \A i \in 1..Len(events) : events[i] = previous.events[i]
       /\ pc \in {"returned", "thrown"} =>
              /\ pc = previous.pc
              /\ result = previous.result
              /\ events = previous.events
              /\ attempt = previous.attempt
              /\ errorRetries = previous.errorRetries
              /\ rateLimitRetries = previous.rateLimitRetries

\* The second run has ended, fed what the first was fed: a 429 with
\* X-RateLimit-Reset 5 read at 4000 ms was a rate-limit retry with delay
\* 1000, the same reply was then retried as a status with delay 1000 * 3^1,
\* the 200 was returned.
C21_Witness ==
    /\ previous # Null
    /\ server = previous.server
    /\ clock = previous.clock
    /\ pc = "returned"
    /\ Len(events) = 2
    /\ events[1].rateLimitRetry /\ events[1].delay = 1000
    /\ ~events[2].rateLimitRetry /\ events[2].delay = 3000
    /\ result.status = 200

\* C22: two concurrent calls are independent.  A step of the running call
\* leaves the locals of the other call as they are (they change hands only
\* when the other call is resumed, each call keeping its own), and a call
\* that ran interleaved with another reports the same onRetry events and
\* ends with the same counters and result as when it then runs alone.
C22_CallsIndependent ==
    /\ [][ (other # Null /\ previous = Null /\ previous' = Null)
              => \/ other' = other
                 \/ other' = Locals /\ Locals' = other ]_vars
    /\ [](previous # Null =>
            /\ Len(events) <= Len(previous.events)
            /\ \A i \in 1..Len(events) : events[i] = previous.events[i]
            /\ pc \in {"returned", "thrown"} =>
                   /\ attempt = previous.attempt
                   /\ errorRetries = previous.errorRetries
                   /\ rateLimitRetries = previous.rateLimitRetries
                   /\ result = previous.result
                   /\ pc = previous.pc)

\* Two calls are under way at different points: one waits after its second
\* retried failure, the other
\* has its third attempt in flight after two rate-limit retries.
C22_Witness ==
    /\ other # Null
    /\ previous = Null
    /\ pc = "wait" /\ attempt = 2 /\ errorRetries = 2
    /\ other.pc = "fetch" /\ other.attempt = 3
    /\ other.rateLimitRetries = 2 /\ other.errorRetries = 0

\* The header names the call was given, in the caller's order.
ConfiguredCustom == cfg.rateLimit.headers

\* C23: rate-limit headers named by the caller take part in the detection.
\* A 429 or 503 whose only parseable rate-limit header is one the caller
\* named is retried as a rate-limit retry (while that budget lasts), with
\* the delay of the first such header in the caller's order; the caller's
\* headers come after the built-in ones: a Retry-After that parses decides.
C23_CustomHeadersAfterBuiltIn ==
    [][ ( /\ pc = "settled"
          /\ pc' # "settled"
          /\ settled.kind = "response"
          /\ settled.value.status \in {429, 503}
          /\ rateLimitRetries < cfg.rateLimit.maxRetries )
        => LET resp == settled.value
               custom == ConfiguredCustom
               builtInParses ==
                   \/ Parseable(resp, "Retry-After")
                   \/ Parseable(resp, "X-RateLimit-Reset")
               parsing == { i \in 1..Len(custom) :
                              Parseable(resp, custom[i]) }
               first == CHOOSE i \in parsing : \A j \in parsing : i <= j
               seconds(name) ==
                   parseInt(headersGetOrEmpty(resp.headers, name))[1]
               retried == Len(events') = Len(events) + 1
               event == events'[Len(events')]
           IN  /\ (~builtInParses /\ parsing # {})
                  => /\ retried
                     /\ event.rateLimitRetry
                     /\ event.delay =
                            Min(seconds(custom[first]) * 1000,
                                cfg.rateLimit.maxDelay)
               /\ Parseable(resp, "Retry-After")
                  => /\ retried
                     /\ event.rateLimitRetry
                     /\ event.delay =
                            Min(seconds("Retry-After") * 1000,
                                cfg.rateLimit.maxDelay)
      ]_vars

\* The integer the header of that name carries (when it parses).
HeaderInteger(resp, name) ==
    parseInt(headersGetOrEmpty(resp.headers, name))[1]

\* A 429 or 503 with an integer Retry-After, or a 429 with an integer
\* X-RateLimit-Reset.
HasRateLimitHeader(resp) ==
    \/ resp.status \in {429, 503} /\ Parseable(resp, "Retry-After")
    \/ resp.status = 429 /\ Parseable(resp, "X-RateLimit-Reset")

\* The delay the headers of the response ask for, read at the clock reading
\* now, at most rateLimit.maxDelay.
HeaderDelay(resp, now) ==
    IF Parseable(resp, "Retry-After")
    THEN Min(HeaderInteger(resp, "Retry-After") * 1000,
             cfg.rateLimit.maxDelay)
    ELSE Min(HeaderInteger(resp, "X-RateLimit-Reset") * 1000 - now,
             cfg.rateLimit.maxDelay)

\* A retry step is one that calls onRetry.
RetryStep == Len(events') = Len(events) + 1

\* C24: in every retry exactly one of the two counters goes up by one and
\* the other stays (and they move in no other step of the call); when the
\* response has a rate-limit header with rate-limit budget left and also a
\* retryable status with error budget left, it is rateLimitRetries that
\* goes up, the delay is the header's and the event says
\* rateLimitRetry = true.
C24_RateLimitBranchFirst ==
    [][ previous' = previous =>
          /\ RetryStep
               => \/ /\ rateLimitRetries' = rateLimitRetries + 1
                     /\ errorRetries' = errorRetries
                     /\ Last(events').rateLimitRetry
                  \/ /\ errorRetries' = errorRetries + 1
                     /\ rateLimitRetries' = rateLimitRetries
                     /\ ~Last(events').rateLimitRetry
          /\ ~RetryStep
               => /\ errorRetries' = errorRetries
                  /\ rateLimitRetries' = rateLimitRetries
          /\ ( /\ pc = "settled" /\ pc' # pc
                /\ settled.kind = "response"
                /\ HasRateLimitHeader(settled.value)
                /\ rateLimitRetries < cfg.rateLimit.maxRetries
                /\ settled.value.status \in RETRY_STATUS_CODES
                /\ errorRetries < cfg.maxRetries )
               => /\ RetryStep
                  /\ rateLimitRetries' = rateLimitRetries + 1
                  /\ errorRetries' = errorRetries
                  /\ Last(events').rateLimitRetry
                  /\ \E now \in Now :
                        Last(events').delay = HeaderDelay(settled.value, now)
        ]_vars

\* A 503 with Retry-After 2 was retried as a rate limit although the error
\* budget would have allowed a retry too: delay 1500 (maxDelay), not 3000.
C24_Witness ==
    /\ pc = "wait"
    /\ response # Null
    /\ response.status = 503
    /\ Parseable(response, "Retry-After")
    /\ cfg.maxRetries >= 1 /\ cfg.initialDelay = 1000
    /\ errorRetries = 0
    /\ rateLimitRetries = 1
    /\ Last(events).rateLimitRetry
    /\ Last(events).delay = 1500

\* The number of error-path retries among the first i onRetry calls.
ErrorRetriesUpTo(i) ==
    Cardinality({ j \in 1..i : ~events[j].rateLimitRetry })

\* C25: every error-path retry (transport error or retryable status) waits
\* initialDelay * factor^n, n the value of errorRetries after its increment
\* for this retry: factor^1 for the first one, and no cap (the delay may
\* exceed rateLimit.maxDelay).
C25_ErrorDelayPostIncrement ==
    /\ \A i \in 1..Len(events) :
          ~events[i].rateLimitRetry
            => events[i].delay =
                 cfg.initialDelay * Pow(cfg.factor, ErrorRetriesUpTo(i))
    /\ (pc = "wait" /\ ~Last(events).rateLimitRetry)
          => /\ ErrorRetriesUpTo(Len(events)) = errorRetries
             /\ errorRetries >= 1
             /\ Last(events).delay =
                   cfg.initialDelay * Pow(cfg.factor, errorRetries)

\* Two error-path retries with initialDelay 1000 and factor 3: 3000 and
\* then 9000, both beyond rateLimit.maxDelay (1500).
C25_Witness ==
    /\ pc = "wait"
    /\ Len(events) = 2
    /\ errorRetries = 2
    /\ events[1].delay = 3000 /\ events[1].error # Null
    /\ events[2].delay = 9000
    /\ cfg.rateLimit.maxDelay = 1500

\* d is x, or maxDelay when x is larger.
AtMostMaxDelay(d, x) ==
    \/ x <= cfg.rateLimit.maxDelay /\ d = x
    \/ x > cfg.rateLimit.maxDelay /\ d = cfg.rateLimit.maxDelay

\* C26: a rate-limit retry waits at most rateLimit.maxDelay: with an integer
\* Retry-After min(seconds * 1000, maxDelay), otherwise (X-RateLimit-Reset)
\* min(epochSeconds * 1000 - now, maxDelay), with no lower clamp: zero or
\* negative when the reset time is not after now.
C26_RateLimitDelayCapped ==
    (pc = "wait" /\ Last(events).rateLimitRetry)
    => LET d == Last(events).delay
           now == clock[attempt]
       IN  /\ d <= cfg.rateLimit.maxDelay
           /\ IF Parseable(response, "Retry-After")
              THEN AtMostMaxDelay(d,
                       HeaderInteger(response, "Retry-After") * 1000)
              ELSE /\ AtMostMaxDelay(d,
                         HeaderInteger(response, "X-RateLimit-Reset") * 1000
                           - now)
                   /\ HeaderInteger(response, "X-RateLimit-Reset") * 1000
                        <= now => d <= 0

\* X-RateLimit-Reset 2 read at 6000 ms: the reset time is 4 seconds past,
\* the delay is -4000.
C26_Witness ==
    /\ pc = "wait"
    /\ Last(events).rateLimitRetry
    /\ ~Parseable(response, "Retry-After")
    /\ HeaderInteger(response, "X-RateLimit-Reset") = 2
    /\ clock[attempt] = 6000
    /\ Last(events).delay = -4000

\* The continuation of an attempt that settled with a response runs, with
\* rate-limit budget left.
ResponseClassified ==
    /\ pc = "settled" /\ pc' # pc
    /\ settled.kind = "response"
    /\ rateLimitRetries < cfg.rateLimit.maxRetries

\* The step retries the response as a rate limit.
RateLimitRetryStep == RetryStep /\ Last(events').rateLimitRetry

\* The step retries the response on the error budget.
StatusRetryStep ==
    /\ RetryStep
    /\ ~Last(events').rateLimitRetry
    /\ errorRetries' = errorRetries + 1

\* C27 as stated: a response is rate-limit eligible iff its status is 429
\* or 503 and Retry-After or X-RateLimit-Reset carries an integer.
C27_Original ==
    [][ ResponseClassified =>
          ( RateLimitRetryStep
            <=> /\ settled.value.status \in {429, 503}
                /\ \/ Parseable(settled.value, "Retry-After")
                   \/ Parseable(settled.value, "X-RateLimit-Reset") )
      ]_vars

\* C27, amended: a response is rate-limit eligible iff its status is 429 or
\* 503 and Retry-After carries an integer, or its status is 429 and
\* X-RateLimit-Reset carries an integer; any other 429 or 503 (a 503 with
\* X-RateLimit-Reset alone included) goes the generic status path, retried
\* on the error budget when that has retries left.
C27_EligibleByStatusAndHeader ==
    [][ ResponseClassified =>
          /\ RateLimitRetryStep
              <=> \/ /\ settled.value.status \in {429, 503}
                     /\ Parseable(settled.value, "Retry-After")
                  \/ /\ settled.value.status = 429
                     /\ Parseable(settled.value, "X-RateLimit-Reset")
          /\ ( /\ settled.value.status \in {429, 503}
                /\ ~RateLimitRetryStep
                /\ errorRetries < cfg.maxRetries )
              => StatusRetryStep
      ]_vars

\* A 503 with an integer X-RateLimit-Reset and no Retry-After was retried
\* on the error budget, with rate-limit budget left.
C27_Witness ==
    /\ pc = "wait"
    /\ response # Null
    /\ response.status = 503
    /\ Parseable(response, "X-RateLimit-Reset")
    /\ ~Parseable(response, "Retry-After")
    /\ ~Last(events).rateLimitRetry
    /\ rateLimitRetries = 0 /\ cfg.rateLimit.maxRetries = 1
    /\ errorRetries = 1

\* C28: of several parseable rate-limit headers the first in priority order
\* alone gives the delay.  With an integer Retry-After the delay is
\* Retry-After's, whatever X-RateLimit-Reset says; a rate-limit retry
\* without one is a 429 with an integer X-RateLimit-Reset, which gives the
\* delay: the header that made the response eligible is the one the delay
\* is computed from (never an unparseable one).
C28_FirstHeaderGivesDelay ==
    (pc = "wait" /\ Last(events).rateLimitRetry)
    => LET d == Last(events).delay
       IN  /\ Parseable(response, "Retry-After")
                => /\ response.status \in {429, 503}
                   /\ AtMostMaxDelay(d,
                         HeaderInteger(response, "Retry-After") * 1000)
           /\ ~Parseable(response, "Retry-After")
                => /\ response.status = 429
                   /\ Parseable(response, "X-RateLimit-Reset")
                   /\ AtMostMaxDelay(d,
                         HeaderInteger(response, "X-RateLimit-Reset") * 1000
                           - clock[attempt])

\* A 429 with Retry-After 0 and X-RateLimit-Reset 7 (3 or 1 second ahead):
\* the delay is 0.
C28_Witness ==
    /\ pc = "wait"
    /\ Last(events).rateLimitRetry
    /\ response.status = 429
    /\ Parseable(response, "Retry-After")
    /\ HeaderInteger(response, "Retry-After") = 0
    /\ Parseable(response, "X-RateLimit-Reset")
    /\ HeaderInteger(response, "X-RateLimit-Reset") = 7
    /\ Last(events).delay = 0

\* The last attempt yielded a response that is not to be retried, and the
\* call has ended.
EndedOnFinalResponse ==
    /\ pc \in {"returned", "thrown"}
    /\ response # Null
    /\ ~retry

\* C29 as stated: whenever an attempt yields a response for which retry is
\* false, fetchWithRetries returns that response.
C29_Original ==
    EndedOnFinalResponse => pc = "returned" /\ result = response

\* C29, amended: when an attempt yields a response for which retry is false
\* the loop is left (no wait, no further attempt), and the call returns
\* exactly that response, non-2xx included, unless the caller's signal has
\* fired by then: in that case it raises the signal's reason.
C29_FinalResponseReturned ==
    /\ (EndedOnFinalResponse /\ ~(hasSignal /\ signalAborted))
          => /\ pc = "returned"
             /\ result = response
             /\ result.at = attempt
    /\ (EndedOnFinalResponse /\ hasSignal /\ signalAborted)
          => /\ pc = "thrown"
             /\ result = signalReason
             /\ response.at = attempt
    /\ pc = "returned" => EndedOnFinalResponse
    /\ pc \in {"wait", "woken"} => retry

\* A 503 is returned as it is after the error budget was used up on
\* earlier attempts.
C29_Witness ==
    /\ pc = "returned"
    /\ result.status = 503
    /\ result.at = attempt
    /\ attempt >= 2
    /\ cfg.maxRetries >= 1
    /\ errorRetries = cfg.maxRetries

\* C30: when the caller's signal has fired by the time the outcome of an
\* attempt is classified, no retry step is taken: no counter moves, onRetry
\* is not called, no wait is started, no attempt follows; the call ends, and
\* when the outcome called for a retry (a response with retry true, or a
\* retryable error with budget left) it raises the signal's reason rather
\* than return the response.
C30_NoRetryOnceAborted ==
    [][ (pc = "settled" /\ hasSignal /\ signalAborted /\ pc' # pc)
          => /\ pc' = "thrown"
             /\ NoRetryStep
             /\ ~internalTimer' /\ ~abortListener'
             /\ (response' # Null /\ retry') => result' = signalReason
             /\ errorToRetry' # Null => result' = signalReason
             /\ result' # signalReason
                  => settled.kind = "error" /\ result' = settled.value
      ]_vars

\* The signal fired before the first 503 was classified: with a retry
\* allowed and none made, the call raised the signal's reason.
C30_Witness ==
    /\ pc = "thrown"
    /\ hasSignal /\ signalAborted
    /\ result = signalReason
    /\ response # Null
    /\ response.status = 503
    /\ retry
    /\ cfg.maxRetries >= 1
    /\ attempt = 1
    /\ events = <<>>
    /\ errorRetries = 0

\* The cause codes C31 lists.
C31_Codes ==
    {"ENOTFOUND", "ECONNREFUSED", "ECONNRESET", "ETIMEDOUT", "EPIPE",
     "EAI_AGAIN", "EHOSTDOWN", "EHOSTUNREACH", "ENETDOWN", "ENETRESET",
     "ENETUNREACH", "ECONNABORTED"}

\* The attempt was rejected with an error whose cause code is listed, or
\* with a TimeoutError.
RejectedWithListedError ==
    /\ settled.kind = "error"
    /\ \/ /\ settled.value.cause # Null
          /\ settled.value.cause.code \in C31_Codes
       \/ settled.value.name = "TimeoutError"

\* C31: a transport error is retried if and only if its cause code is one
\* of the twelve listed or it is a TimeoutError, and errorRetries <
\* maxRetries: the retry counts on errorRetries and hands the error to
\* onRetry.  Any other error, and a listed one once the budget is used up,
\* is raised again as it is, with no counter moved and no onRetry.
C31_ErrorRetryable ==
    [][ (pc = "settled" /\ settled.kind = "error" /\ pc' # pc)
          => IF RejectedWithListedError /\ errorRetries < cfg.maxRetries
             THEN /\ pc' = "wait"
                  /\ errorRetries' = errorRetries + 1
                  /\ rateLimitRetries' = rateLimitRetries
                  /\ Len(events') = Len(events) + 1
                  /\ Last(events').error = [at |-> settled.value.at]
                  /\ Last(events').response = Null
                  /\ ~Last(events').rateLimitRetry
             ELSE /\ pc' = "thrown"
                  /\ result' = settled.value
                  /\ UNCHANGED <<errorRetries, rateLimitRetries, events,
                                 internalTimer>>
      ]_vars

\* A broken pipe on every attempt: retried twice, raised at the third.
C31_Witness ==
    /\ pc = "thrown"
    /\ result.cause # Null
    /\ result.cause.code = "EPIPE"
    /\ cfg.maxRetries = 2
    /\ errorRetries = 2
    /\ Len(events) = 2
    /\ result.at = 3

\* Exactly one of a and b is populated (not null).
ExactlyOnePopulated(a, b) == (a = Null) # (b = Null)

\* C32: an iteration starts with response and errorToRetry both null, and
\* once its attempt is classified exactly one of them is populated (never
\* both; neither only when the catch block has rethrown).  Every RetryEvent
\* carries exactly one of response and error, the one the attempt of that
\* event yielded; rateLimitRetry = true comes with a response.
C32_ResponseXorError ==
    /\ pc \in {"fetch", "settled"} => response = Null /\ errorToRetry = Null
    /\ pc \in {"wait", "woken", "returned"}
          => ExactlyOnePopulated(response, errorToRetry)
    /\ ~(response # Null /\ errorToRetry # Null)
    /\ (pc \in {"wait", "woken"} /\ onRetryPassed)
          => /\ Last(events).response = Ref(response)
             /\ Last(events).error = Ref(errorToRetry)
    /\ pc = "returned" => errorToRetry = Null
    /\ \A i \in 1..Len(events) :
          /\ ExactlyOnePopulated(events[i].response, events[i].error)
          /\ events[i].rateLimitRetry => events[i].response # Null
          /\ events[i].response # Null
                => events[i].response.at = events[i].attempt

\* A response retry (503) was followed by a transport-error retry: the
\* second event carries the error and no response, the locals likewise.
C32_Witness ==
    /\ pc = "wait"
    /\ Len(events) = 2
    /\ events[1].response # Null
    /\ events[1].error = Null
    /\ events[2].error # Null
    /\ events[2].response = Null
    /\ errorToRetry # Null
    /\ response = Null

\* The retries of the call made on the error path, in order (positions in
\* events).
ErrorPathRetries == { i \in 1..Len(events) : ~events[i].rateLimitRetry }

\* C33: with initialDelay >= 0 and factor > 1 the delays of the error-path
\* retries of a call never decrease from one to the next, and increase
\* strictly when initialDelay > 0, whatever rate-limit retries happen in
\* between.
C33_BackoffMonotonic ==
    (cfg.initialDelay >= 0 /\ cfg.factor > 1)
    => \A i \in ErrorPathRetries, j \in ErrorPathRetries :
          i < j => /\ events[i].delay <= events[j].delay
                   /\ cfg.initialDelay > 0
                         => events[i].delay < events[j].delay

\* Two error-path retries with a rate-limit retry in between: delays 300
\* and 900 around the header's delay.
C33_Witness ==
    /\ Len(events) = 3
    /\ cfg.initialDelay = 100
    /\ cfg.factor = 3
    /\ ~events[1].rateLimitRetry
    /\ events[2].rateLimitRetry
    /\ ~events[3].rateLimitRetry
    /\ events[1].delay = 300
    /\ events[3].delay = 900

\* C34 as stated: onRetry is called once per retry made and never for the
\* outcome that ends the call.  The k-th call carries attempt = k, and k is
\* errorRetries + rateLimitRetries as they stand after the increment of
\* that retry; a call that ends with the caller's signal not fired, after n
\* attempts, has called onRetry n - 1 times.
C34_Original ==
    /\ Len(events) = Invocations(errorRetries + rateLimitRetries)
    /\ Cardinality(ErrorPathRetries) = Invocations(errorRetries)
    /\ \A k \in 1..Len(events) : events[k].attempt = k
    /\ pc \in {"fetch", "settled"} => Len(events) = Invocations(attempt - 1)
    /\ pc \in {"wait", "woken"} => Len(events) = Invocations(attempt)
    /\ (Ended /\ ~(hasSignal /\ signalAborted))
          => Len(events) = Invocations(attempt - 1)

\* C34, amended: the same, but a call that ends after n attempts because
\* its n-th onRetry call threw has called onRetry n times; a call that ends
\* otherwise, with the caller's signal not fired, n - 1 times.
C34_OnRetryPerRetry ==
    /\ Len(events) = Invocations(errorRetries + rateLimitRetries)
    /\ Cardinality(ErrorPathRetries) = Invocations(errorRetries)
    /\ \A k \in 1..Len(events) : events[k].attempt = k
    /\ pc \in {"fetch", "settled"} => Len(events) = Invocations(attempt - 1)
    /\ pc \in {"wait", "woken"} => Len(events) = Invocations(attempt)
    /\ EndedByOnRetry => Len(events) = attempt /\ result.at = attempt
    /\ (Ended /\ ~EndedByOnRetry /\ ~(hasSignal /\ signalAborted))
          => Len(events) = Invocations(attempt - 1)

\* A call returned the response of its third attempt after a rate-limit
\* retry and an error-path retry: two onRetry calls.
C34_Witness ==
    /\ pc = "returned"
    /\ attempt = 3
    /\ result.at = 3
    /\ Len(events) = 2
    /\ errorRetries = 1
    /\ rateLimitRetries = 1
    /\ events[1].attempt = 1
    /\ events[2].attempt = 2

\* C35: every call terminates.  When every attempt in flight settles, every
\* queued continuation runs and every pending timer fires unless cleared,
\* the call returns or raises, whatever the attempts yield and whenever the
\* signal or the timeout fire; it never makes more than
\* 1 + maxRetries + rateLimit.maxRetries attempts.
C35_Terminates ==
    /\ <>Ended
    /\ [](attempt <= 1 + cfg.maxRetries + cfg.rateLimit.maxRetries)

\* A call that used both budgets up and ended at the last attempt it may
\* make.
C35_Witness ==
    /\ Ended
    /\ cfg.maxRetries = 2
    /\ cfg.rateLimit.maxRetries = 1
    /\ attempt = 4
    /\ errorRetries = 2
    /\ rateLimitRetries = 1

\* Every retry so far followed a 429 or a 503 that carried a rate-limit
\* header (the server sends nothing else before its last reply).
StreamOfRateLimitedResponses ==
    /\ Len(server) >= 1
    /\ server[1].kind = "response"
    /\ HasRateLimitHeader(server[1].value)

\* C36: with the rate-limit budget used up, one more 429 or 503 with a
\* rate-limit header is not returned while errorRetries < maxRetries: it is
\* retried on the error path (errorRetries + 1, the exponential delay,
\* rateLimitRetry = false).  A stream of such responses is retried
\* rateLimit.maxRetries times on the rate-limit path, then maxRetries times
\* on the error path, and the next one is returned.
C36_RateLimitedFallsToErrorPath ==
    /\ [][ ( /\ pc = "settled"
             /\ settled.kind = "response"
             /\ HasRateLimitHeader(settled.value)
             /\ rateLimitRetries = cfg.rateLimit.maxRetries
             /\ errorRetries < cfg.maxRetries
             /\ pc' # pc )
           => /\ pc' = "wait"
              /\ errorRetries' = errorRetries + 1
              /\ rateLimitRetries' = rateLimitRetries
              /\ IF onRetryPassed
                 THEN /\ Len(events') = Len(events) + 1
                      /\ ~Last(events').rateLimitRetry
                      /\ Last(events').delay =
                            cfg.initialDelay
                                * Pow(cfg.factor, errorRetries + 1)
                      /\ Last(events').response = [at |-> attempt]
                 ELSE events' = events
       ]_vars
    /\ [](StreamOfRateLimitedResponses
            => /\ \A i \in 1..Len(events) :
                     events[i].rateLimitRetry
                        <=> i <= cfg.rateLimit.maxRetries
               /\ (pc = "returned" /\ ~ok(result))
                     => /\ Len(events) =
                              Invocations(cfg.rateLimit.maxRetries
                                              + cfg.maxRetries)
                        /\ attempt =
                              cfg.rateLimit.maxRetries + cfg.maxRetries + 1)

\* Fourteen times a 429 with Retry-After: 0 under the default budgets: ten
\* rate-limit retries, three error-path retries with delays 2000, 4000 and
\* 8000, and the fourteenth 429 is returned.
C36_Witness ==
    /\ pc = "returned"
    /\ result.status = 429
    /\ result.at = 14
    /\ Len(events) = 13
    /\ rateLimitRetries = 10
    /\ errorRetries = 3
    /\ events[10].rateLimitRetry
    /\ ~events[11].rateLimitRetry
    /\ events[10].delay = 0
    /\ events[11].delay = 2000
    /\ events[13].delay = 8000

\* The attempt yielded a 503 whose only rate-limit header that parses as an
\* integer is X-RateLimit-Reset.
Settled503WithResetOnly ==
    /\ pc = "settled"
    /\ settled.kind = "response"
    /\ settled.value.status = 503
    /\ Parseable(settled.value, "X-RateLimit-Reset")
    /\ ~Parseable(settled.value, "Retry-After")

\* C37: X-RateLimit-Reset makes a response a rate-limit retry only with
\* status 429.  A 503 whose only parseable rate-limit header is
\* X-RateLimit-Reset is never retried on the rate-limit path, whatever is
\* left of that budget: with error budget left it counts on errorRetries,
\* waits the exponential delay and is reported with rateLimitRetry = false;
\* with none left it is returned.
C37_ResetHeaderOnlyFor429 ==
    [][ (Settled503WithResetOnly /\ pc' # pc)
          => /\ rateLimitRetries' = rateLimitRetries
             /\ IF errorRetries < cfg.maxRetries
                THEN /\ pc' = "wait"
                     /\ errorRetries' = errorRetries + 1
                     /\ Len(events') = Len(events) + 1
                     /\ ~Last(events').rateLimitRetry
                     /\ Last(events').delay =
                           cfg.initialDelay * Pow(cfg.factor, errorRetries')
                ELSE /\ pc' = "returned"
                     /\ result' = settled.value
                     /\ UNCHANGED <<errorRetries, events>>
      ]_vars

\* A 503 with X-RateLimit-Reset: 7 and rate-limit budget left: retried on
\* the error path with the delay 1000 * 3.
C37_Witness ==
    /\ pc = "wait"
    /\ response # Null
    /\ response.status = 503
    /\ Parseable(response, "X-RateLimit-Reset")
    /\ ~Parseable(response, "Retry-After")
    /\ cfg.rateLimit.maxRetries = 1
    /\ rateLimitRetries = 0
    /\ errorRetries = 1
    /\ ~Last(events).rateLimitRetry
    /\ Last(events).delay = 3000

\* C38 as stated: a call never returns a response with the caller's signal
\* aborted when the loop is left.  When the signal fires after an attempt
\* has produced its response and before the call returns, the call raises
\* the signal's reason, also for a response that is not to be retried (a
\* 200, a 400, a 503 with no budget left).
C38_Original ==
    /\ pc = "returned" => ~(hasSignal /\ signalAborted)
    /\ (Ended /\ hasSignal /\ signalAborted /\ response # Null)
          => /\ pc = "thrown"
             /\ result = signalReason
             /\ result # response

\* C38, amended: the same, but when onRetry aborts the signal and then
\* throws, the call raises what onRetry threw, not the signal's reason.
C38_NoResponseOnceAborted ==
    /\ pc = "returned" => ~(hasSignal /\ signalAborted)
    /\ (Ended /\ hasSignal /\ signalAborted /\ response # Null)
          => /\ pc = "thrown"
             /\ result # response
             /\ ~EndedByOnRetry => result = signalReason
             /\ EndedByOnRetry => retry /\ Last(events).attempt = attempt

\* The first attempt produced a 200 and the signal fired before the
\* continuation ran: the call raised the signal's reason.
C38_Witness ==
    /\ pc = "thrown"
    /\ hasSignal /\ signalAborted
    /\ response # Null
    /\ response.status = 200
    /\ response.at = 1
    /\ ~retry
    /\ attempt = 1
    /\ result = signalReason

\* The call was given a fixed timeout and no signal.
OnlyTimeout == hasTimeout /\ ~hasSignal

\* C39: the retry gate, the loop condition, wait and the final
\* throwIfAborted read the caller's signal, never the composed one.  With a
\* timeout and no signal: the timeout firing leaves a pending wait and the
\* position of the call as they are; after it the loop goes on to the next
\* attempt; every attempt that settles after it is rejected with the
\* TimeoutError, which uses one error retry while one is left and is raised
\* once none is; the call raises only what an attempt was rejected with, or
\* what onRetry threw.
C39_LoopReadsCallerSignalOnly ==
    [][ OnlyTimeout
          => /\ (~timeoutFired /\ timeoutFired')
                   => UNCHANGED <<pc, internalTimer, abortListener, retry,
                                  attempt, errorRetries, events, result>>
             /\ ~abortListener'
             /\ (pc = "woken" /\ timeoutFired /\ pc' # pc)
                   => pc' = "fetch" /\ attempt' = attempt + 1
             /\ (pc = "fetch" /\ timeoutFired /\ pc' = "settled")
                   => settled' = Rejected(TimeoutReason)
             /\ (pc = "settled" /\ timeoutFired /\ pc' # pc
                   /\ settled = Rejected(TimeoutReason))
                   => IF errorRetries < cfg.maxRetries
                      THEN /\ (pc' = "wait" /\ internalTimer') \/ OnRetryThrew
                           /\ errorRetries' = errorRetries + 1
                           /\ onRetryPassed =>
                                  Last(events').error = [at |-> 0]
                      ELSE /\ pc' = "thrown"
                           /\ result' = TimeoutReason
                           /\ errorRetries' = errorRetries
             /\ (pc # "thrown" /\ pc' = "thrown" /\ ~OnRetryThrew)
                   => /\ pc = "settled"
                      /\ settled.kind = "error"
                      /\ result' = settled.value
      ]_vars

\* The timeout fired during the first attempt: two attempts failed with the
\* TimeoutError and were retried, the third raised it.
C39_Witness ==
    /\ OnlyTimeout
    /\ timeoutFired
    /\ pc = "thrown"
    /\ result = TimeoutReason
    /\ cfg.maxRetries = 2
    /\ errorRetries = 2
    /\ attempt = 3
    /\ Len(events) = 2
    /\ events[1].error = [at |-> 0]
    /\ events[2].error = [at |-> 0]

\* C40: once the caller's signal has fired the call is never left suspended
\* in a wait for the whole of a backoff delay, also when the signal fired
\* between the check of line 85 and the registration of wait's listener
\* (onRetry aborting the signal): no wait with a delay to run is pending
\* while the signal is aborted.
C40_NoWaitOnceAborted ==
    (hasSignal /\ signalAborted /\ pc = "wait") => Last(events).delay <= 0

====
